---- MODULE Spec2Model ----
(***************************************************************************)
(* Model of the caching / deduplication layer of newscaster_bot            *)
(* (cache_manager.py) and of its callers (news_fetcher.py,                 *)
(* llm_analyzer.py, main.py, discord_bot.py).                              *)
(*                                                                         *)
(* Python strings are sequences of character codes (ASCII), so that        *)
(* concatenation, sorting and formatting are computed as the code computes *)
(* them.  The clock counts whole hours since 2026-01-01T00:00.             *)
(***************************************************************************)
EXTENDS Integers, Sequences, FiniteSets, TLC

VARIABLES now, articles_cache, analysis_cache, sent_articles,
          probes, tasks,
          ret, fput, aput, nput,
          pc, mode, articles, delivered, lastCall, cycles

vars == <<now, articles_cache, analysis_cache, sent_articles, probes, tasks, ret, fput, aput, nput,
          pc, mode, articles, delivered, lastCall, cycles>>

storeVars == <<articles_cache, analysis_cache, sent_articles>>
keyVars == <<probes, tasks>>
apiVars == <<ret, fput, aput, nput>>
pipeVars == <<pc, mode, articles, delivered, lastCall, cycles>>

(***************************************************************************)
(* Bounds of the model.                                                    *)
(***************************************************************************)
\* last hour the clock may reach in the fingerprint specification
MaxKeyNow == 31
\* last hour the clock may reach in the cache-API specification
MaxApiNow == 31
\* number of cache writes (cache_articles, cache_analysis) in one behaviour
MaxPuts == 2
\* last hour the clock may reach in the pipeline specification
MaxNow == 25
\* number of digest cycles in one behaviour of the pipeline
MaxCycles == 2
\* longest article list the upstream services return
MaxArticles == 2

(***************************************************************************)
(* Characters and strings.                                                 *)
(***************************************************************************)
ChUnderscore == 95
ChDash == 45
ChColon == 58
ChT == 84
ChZero == 48

IsDigit(c) == c >= ChZero /\ c <= ChZero + 9

\* str(n) for a non-negative integer
RECURSIVE Str(_)
Str(n) == IF n < 10 THEN <<ChZero + n>> ELSE Str(n \div 10) \o <<ChZero + (n % 10)>>

\* zero-padded two-digit field of strftime / isoformat
Pad2(n) == <<ChZero + (n \div 10), ChZero + (n % 10)>>

\* int() of a string of digits
RECURSIVE int_of(_)
int_of(s) == IF Len(s) = 0 THEN 0 ELSE 10 * int_of(SubSeq(s, 1, Len(s) - 1)) + (s[Len(s)] - ChZero)

AllDigits(s) == \A i \in 1..Len(s) : IsDigit(s[i])

\* Python's ordering of str: lexicographic by code point
RECURSIVE StrLeq(_, _)
StrLeq(s, t) ==
    IF Len(s) = 0 THEN TRUE
    ELSE IF Len(t) = 0 THEN FALSE
    ELSE IF s[1] < t[1] THEN TRUE
    ELSE IF s[1] > t[1] THEN FALSE
    ELSE StrLeq(Tail(s), Tail(t))

\* insertion of x into a sorted list
RECURSIVE Insert(_, _)
Insert(x, l) ==
    IF Len(l) = 0 THEN <<x>>
    ELSE IF StrLeq(x, l[1]) THEN <<x>> \o l
    ELSE <<l[1]>> \o Insert(x, Tail(l))

\* sorted(list of str)
RECURSIVE sorted(_)
sorted(l) == IF Len(l) = 0 THEN <<>> ELSE Insert(l[1], sorted(Tail(l)))

\* ''.join(list of str)
RECURSIVE join(_)
join(l) == IF Len(l) = 0 THEN <<>> ELSE l[1] \o join(Tail(l))

\* hashlib.md5(s).hexdigest(): a digest, assumed collision-free, so the
\* digest is determined by and determines the hashed string
md5(s) == <<"md5", s>>

(***************************************************************************)
(* Calendar: datetime.now(), strftime('%Y-%m-%d'), isoformat(),            *)
(* fromisoformat().                                                        *)
(***************************************************************************)
EpochYear == 2026
HoursPerDay == 24
DaysPerYear == 365
MonthLen == <<31, 28, 31, 30, 31, 30, 31, 31, 30, 31, 30, 31>>

\* <<month, day of month>> of the d-th day (from 0) of a year, from month m on
RECURSIVE MonthDay(_, _)
MonthDay(d, m) == IF d < MonthLen[m] THEN <<m, d + 1>> ELSE MonthDay(d - MonthLen[m], m + 1)

\* days of the year before month m
RECURSIVE DaysBefore(_)
DaysBefore(m) == IF m = 1 THEN 0 ELSE DaysBefore(m - 1) + MonthLen[m - 1]

\* datetime.strftime('%Y-%m-%d') of the clock value t
strftime_date(t) ==
    LET day == t \div HoursPerDay
        md == MonthDay(day % DaysPerYear, 1)
    IN  Str(EpochYear + day \div DaysPerYear) \o <<ChDash>> \o Pad2(md[1])
            \o <<ChDash>> \o Pad2(md[2])

\* datetime.isoformat() of the clock value t
isoformat(t) ==
    strftime_date(t) \o <<ChT>> \o Pad2(t % HoursPerDay)
        \o <<ChColon>> \o Pad2(0) \o <<ChColon>> \o Pad2(0)

\* does datetime.fromisoformat(s) accept s
iso_parses(s) ==
    /\ Len(s) = 19
    /\ AllDigits(SubSeq(s, 1, 4)) /\ s[5] = ChDash
    /\ AllDigits(SubSeq(s, 6, 7)) /\ s[8] = ChDash
    /\ AllDigits(SubSeq(s, 9, 10)) /\ s[11] = ChT
    /\ AllDigits(SubSeq(s, 12, 13)) /\ s[14] = ChColon
    /\ AllDigits(SubSeq(s, 15, 16)) /\ s[17] = ChColon
    /\ AllDigits(SubSeq(s, 18, 19))
    /\ int_of(SubSeq(s, 1, 4)) >= EpochYear
    /\ int_of(SubSeq(s, 6, 7)) \in 1..12
    /\ int_of(SubSeq(s, 9, 10)) \in 1..MonthLen[int_of(SubSeq(s, 6, 7))]
    /\ int_of(SubSeq(s, 12, 13)) \in 0..23

\* datetime.fromisoformat(s) as a clock value, for a string it accepts
fromisoformat(s) ==
    ((int_of(SubSeq(s, 1, 4)) - EpochYear) * DaysPerYear
        + DaysBefore(int_of(SubSeq(s, 6, 7))) + int_of(SubSeq(s, 9, 10)) - 1) * HoursPerDay
    + int_of(SubSeq(s, 12, 13))

(***************************************************************************)
(* Python values: None / Optional, dict, truthiness.                       *)
(***************************************************************************)
EmptyDict == <<>>
NoArticles == [some |-> FALSE, val |-> <<>>]
NoAnalysis == [some |-> FALSE, val |-> {}]
Some(v) == [some |-> TRUE, val |-> v]
\* `if cached:` on an Optional[List]
TruthyList(o) == o.some /\ o.val # <<>>
\* `if cached_analysis:` on an Optional[Dict]
TruthyDict(o) == o.some /\ o.val # {}

DictPut(d, k, v) == [x \in (DOMAIN d) \cup {k} |-> IF x = k THEN v ELSE d[x]]
DictKeep(d, S) == [x \in S |-> d[x]]

(***************************************************************************)
(* cache_manager.py                                                        *)
(***************************************************************************)
article_cache_expiry == 24
analysis_cache_expiry == 24

\* a CacheManager that answers from the file as it saw it at its last call
cache_file_of_remembered(seen, cache_file) == seen

\* the file a call of a CacheManager works on: the instance holds the paths
\* and nothing of what earlier calls read or wrote (seen), and every call
\* opens the file
cache_file_of(seen, cache_file) == cache_file

\* The text of a file.  kind "object" is the text of a JSON object: its
\* members <<key, value>> in the order they are written, and whether the
\* text is complete (the closing brace has been written).  kind "array" is
\* the text of a JSON array of strings (members are its items) and kind
\* "null" is the text null.
EmptyText == [kind |-> "object", members |-> <<>>, closed |-> FALSE]

\* json.dump(data, f) without its last member
RECURSIVE json_dump_drop_last(_)
json_dump_drop_last(data) ==
    IF DOMAIN data = {} THEN [kind |-> "object", members |-> <<>>, closed |-> TRUE]
    ELSE LET k == CHOOSE x \in DOMAIN data : TRUE
             rest == json_dump_drop_last([x \in DOMAIN data \ {k} |-> data[x]])
         IN  IF DOMAIN data = {k} THEN rest
             ELSE [kind |-> "object", members |-> <<<<k, data[k]>>>> \o rest.members,
                   closed |-> TRUE]

\* json.dump(data, f): one member per item of the dict
RECURSIVE json_dump(_)
json_dump(data) ==
    IF DOMAIN data = {} THEN [kind |-> "object", members |-> <<>>, closed |-> TRUE]
    ELSE LET k == CHOOSE x \in DOMAIN data : TRUE
         IN  [kind |-> "object",
              members |-> <<<<k, data[k]>>>>
                            \o json_dump([x \in DOMAIN data \ {k} |-> data[x]]).members,
              closed |-> TRUE]

\* json.load(f) raises on a text that is not a complete JSON object
json_raises(text) == ~text.closed

\* json.load(f) of a complete text: the members are put into a dict from left
\* to right, so the last member of a key is the one that stays
RECURSIVE json_load(_)
json_load(text) ==
    IF Len(text.members) = 0 THEN EmptyDict
    ELSE LET n == Len(text.members)
             d == json_load([text EXCEPT !.members = SubSeq(text.members, 1, n - 1)])
             k == text.members[n][1]
         IN  [x \in (DOMAIN d) \cup {k} |-> IF x = k THEN text.members[n][2] ELSE d[x]]

\* a backing file: absent, or holding a text
AbsentFile == [exists |-> FALSE, text |-> EmptyText]

_load_cache(cache_file) ==
    IF cache_file.exists
    THEN IF json_raises(cache_file.text) THEN EmptyDict ELSE json_load(cache_file.text)
    ELSE EmptyDict

\* _save_cache: the new content of the file; open(cache_file, 'w') and
\* json.dump succeed
_save_cache(cache_file, data) == [exists |-> TRUE, text |-> json_dump(data)]

\* _save_cache with a fault: "none"; "open", open(cache_file, 'w') raises and
\* the file is as it was; "write", open has emptied the file and json.dump
\* or the close raises after `written` members have reached the file.  The
\* exception is caught and printed.
_save_cache_fault(cache_file, data, fault, written) ==
    IF fault = "none" THEN _save_cache(cache_file, data)
    ELSE IF fault = "open" THEN cache_file
    ELSE [exists |-> TRUE,
          text |-> [kind |-> "object",
                    members |-> SubSeq(json_dump(data).members, 1, written),
                    closed |-> FALSE]]

\* what _load_cache returns, with its Python type: a dict, and for a file
\* that holds a JSON array or null, which json.load reads without raising,
\* a list or None
_load_cache_value(cache_file) ==
    IF ~cache_file.exists \/ json_raises(cache_file.text)
    THEN [type |-> "dict", val |-> EmptyDict]
    ELSE IF cache_file.text.kind = "object"
    THEN [type |-> "dict", val |-> json_load(cache_file.text)]
    ELSE IF cache_file.text.kind = "array"
    THEN [type |-> "list", val |-> cache_file.text.members]
    ELSE [type |-> "None", val |-> <<>>]

\* the items of a loaded list, the keys of a loaded dict
ItemsOf(v) == IF v.type = "list" THEN {v.val[i] : i \in DOMAIN v.val} ELSE DOMAIN v.val

\* _is_expired with the comparison the wrong way round
_is_expired_flipped(timestamp, expiry_hours, clock) ==
    IF iso_parses(timestamp)
    THEN clock < fromisoformat(timestamp) + expiry_hours
    ELSE TRUE

\* _is_expired with >= for >
_is_expired_geq(timestamp, expiry_hours, clock) ==
    IF iso_parses(timestamp)
    THEN clock >= fromisoformat(timestamp) + expiry_hours
    ELSE TRUE

\* _is_expired with an except branch that returns False
_is_expired_unparsed_fresh(timestamp, expiry_hours, clock) ==
    IF iso_parses(timestamp)
    THEN clock > fromisoformat(timestamp) + expiry_hours
    ELSE FALSE

\* _is_expired: clock is datetime.now()
_is_expired(timestamp, expiry_hours, clock) ==
    IF iso_parses(timestamp)
    THEN clock > fromisoformat(timestamp) + expiry_hours
    ELSE TRUE

\* _generate_cache_key without the date in the key
_generate_cache_key_nodate(topic, max_articles, clock) ==
    md5(topic \o <<ChUnderscore>> \o Str(max_articles))

\* _generate_cache_key without max_articles in the key
_generate_cache_key_nocount(topic, max_articles, clock) ==
    md5(topic \o <<ChUnderscore>> \o strftime_date(clock))

\* _generate_cache_key: clock is datetime.now()

_generate_cache_key(topic, max_articles, clock) ==
    md5(topic \o <<ChUnderscore>> \o Str(max_articles) \o <<ChUnderscore>>
            \o strftime_date(clock))

\* [a['url'] for a in articles]
RECURSIVE urls_of(_)
urls_of(arts) == IF Len(arts) = 0 THEN <<>> ELSE <<arts[1].url>> \o urls_of(Tail(arts))

\* the hashed string without the sort of the urls
article_set_input_unsorted(arts) == join(urls_of(arts))

\* the string that get_cached_analysis and cache_analysis hash
article_set_input(arts) == join(sorted(urls_of(arts)))

article_set_key(arts) == md5(article_set_input(arts))


\* get_cached_articles: Optional[List[Dict]]
get_cached_articles(file, topic, max_articles, clock) ==
    LET cache_key == _generate_cache_key(topic, max_articles, clock)
        cache == _load_cache(file)
    IN  IF cache_key \in DOMAIN cache
        THEN IF ~_is_expired(cache[cache_key].timestamp, article_cache_expiry, clock)
             THEN Some(cache[cache_key].articles)
             ELSE NoArticles
        ELSE NoArticles

\* cache_articles that writes the new record alone
cache_articles_alone(file, topic, max_articles, arts, clock) ==
    _save_cache(file, DictPut(EmptyDict, _generate_cache_key(topic, max_articles, clock),
                [topic |-> topic, timestamp |-> isoformat(clock), articles |-> arts]))

\* cache_articles: the new content of the articles_cache file
cache_articles(file, topic, max_articles, arts, clock) ==
    LET cache_key == _generate_cache_key(topic, max_articles, clock)
        cache == _load_cache(file)
    IN  _save_cache(file, DictPut(cache, cache_key,
                [topic |-> topic, timestamp |-> isoformat(clock), articles |-> arts]))

\* get_cached_analysis: Optional[Dict]
get_cached_analysis(file, arts, topic, clock) ==
    LET cache_key == article_set_key(arts)
        cache == _load_cache(file)
    IN  IF cache_key \in DOMAIN cache
        THEN IF ~_is_expired(cache[cache_key].timestamp, analysis_cache_expiry, clock)
             THEN Some(cache[cache_key].analysis)
             ELSE NoAnalysis
        ELSE NoAnalysis

\* cache_analysis that writes the new record alone
cache_analysis_alone(file, arts, topic, result, clock) ==
    _save_cache(file, DictPut(EmptyDict, article_set_key(arts),
                [topic |-> topic, timestamp |-> isoformat(clock),
                 article_count |-> Len(arts), analysis |-> result]))

\* cache_analysis: the new content of the analysis_cache file
cache_analysis(file, arts, topic, result, clock) ==
    LET cache_key == article_set_key(arts)
        cache == _load_cache(file)
    IN  _save_cache(file, DictPut(cache, cache_key,
                [topic |-> topic, timestamp |-> isoformat(clock),
                 article_count |-> Len(arts), analysis |-> result]))

\* is_article_sent that finds no url in the ledger
is_article_sent_never(file, article_url) == FALSE

is_article_sent(file, article_url) == article_url \in DOMAIN _load_cache(file)

\* mark_article_sent that writes the new mark alone
mark_article_sent_alone(file, article_url, topic, clock) ==
    _save_cache(file, DictPut(EmptyDict, article_url,
                [topic |-> topic, sent_at |-> isoformat(clock)]))

\* mark_article_sent: the new content of the sent_articles file
mark_article_sent(file, article_url, topic, clock) ==
    _save_cache(file, DictPut(_load_cache(file), article_url,
                [topic |-> topic, sent_at |-> isoformat(clock)]))

\* the save of mark_article_sent done as a whole mark_article_sent, with a
\* load of its own
mark_article_sent_save_reloading(file, sent, article_url, topic, clock) ==
    _save_cache(file, DictPut(_load_cache(file), article_url,
                [topic |-> topic, sent_at |-> isoformat(clock)]))

\* mark_article_sent from its second statement on: sent is the dict its
\* first statement loaded
mark_article_sent_save(file, sent, article_url, topic, clock) ==
    _save_cache(file, DictPut(sent, article_url,
                [topic |-> topic, sent_at |-> isoformat(clock)]))

\* filter_new_articles
RECURSIVE filter_new_articles(_, _)
filter_new_articles(file, arts) ==
    IF Len(arts) = 0 THEN <<>>
    ELSE (IF is_article_sent(file, arts[1].url) THEN <<>> ELSE <<arts[1]>>)
            \o filter_new_articles(file, Tail(arts))

\* mark_articles_sent that marks the first article only
mark_articles_sent_first(file, arts, topic, clock) ==
    IF Len(arts) = 0 THEN file
    ELSE _save_cache(file, DictPut(_load_cache(file), arts[1].url,
                [topic |-> topic, sent_at |-> isoformat(clock)]))

\* mark_articles_sent: the new content of the sent_articles file
RECURSIVE mark_articles_sent(_, _, _, _)
mark_articles_sent(file, arts, topic, clock) ==
    IF Len(arts) = 0 THEN file
    ELSE mark_articles_sent(mark_article_sent(file, arts[1].url, topic, clock),
                            Tail(arts), topic, clock)

\* a ledger retention of seven days
sent_retention_hours_week == 7 * 24

sent_retention_hours == 30 * 24

\* the retention argument taken as hours
retention_hours_undays(days) == days

\* days * 24, the window of the fetch and analysis sweeps
retention_hours(days) == days * 24

\* cleanup_old_cache with a count that leaves out the ledger
cleanup_old_cache_uncounted_sent(fa, fn, fs, days, clock) ==
    LET cache == _load_cache(fa)
        keepA == {k \in DOMAIN cache :
                    ~_is_expired(cache[k].timestamp, retention_hours(days), clock)}
        cleanedA == Cardinality(DOMAIN cache) - Cardinality(keepA)
        acache == _load_cache(fn)
        keepN == {k \in DOMAIN acache :
                    ~_is_expired(acache[k].timestamp, retention_hours(days), clock)}
        analysis_cleaned == Cardinality(DOMAIN acache) - Cardinality(keepN)
        sent == _load_cache(fs)
        keepS == {k \in DOMAIN sent : ~_is_expired(sent[k].sent_at, sent_retention_hours, clock)}
        sent_cleaned == Cardinality(DOMAIN sent) - Cardinality(keepS)
    IN  [articles_cache |-> IF cleanedA > 0 THEN _save_cache(fa, DictKeep(cache, keepA)) ELSE fa,
         analysis_cache |-> IF analysis_cleaned > 0 THEN _save_cache(fn, DictKeep(acache, keepN))
                            ELSE fn,
         sent_articles |-> IF sent_cleaned > 0 THEN _save_cache(fs, DictKeep(sent, keepS)) ELSE fs,
         cleaned |-> cleanedA + analysis_cleaned]

\* cleanup_old_cache: the new content of the three files and the returned count
cleanup_old_cache(fa, fn, fs, days, clock) ==
    LET cache == _load_cache(fa)
        keepA == {k \in DOMAIN cache : ~_is_expired(cache[k].timestamp, retention_hours(days), clock)}
        cleanedA == Cardinality(DOMAIN cache) - Cardinality(keepA)
        acache == _load_cache(fn)
        keepN == {k \in DOMAIN acache : ~_is_expired(acache[k].timestamp, retention_hours(days), clock)}
        analysis_cleaned == Cardinality(DOMAIN acache) - Cardinality(keepN)
        sent == _load_cache(fs)
        keepS == {k \in DOMAIN sent : ~_is_expired(sent[k].sent_at, sent_retention_hours, clock)}
        sent_cleaned == Cardinality(DOMAIN sent) - Cardinality(keepS)
    IN  [articles_cache |-> IF cleanedA > 0 THEN _save_cache(fa, DictKeep(cache, keepA)) ELSE fa,
         analysis_cache |-> IF analysis_cleaned > 0 THEN _save_cache(fn, DictKeep(acache, keepN))
                            ELSE fn,
         sent_articles |-> IF sent_cleaned > 0 THEN _save_cache(fs, DictKeep(sent, keepS)) ELSE fs,
         cleaned |-> cleanedA + analysis_cleaned + sent_cleaned]

\* clear_cache that unlinks nothing
clear_cache_kept(file) == file

\* clear_cache: every file is unlinked
clear_cache(file) == AbsentFile

\* does `cache_key in cache`, then entry[field], raise: TypeError on None,
\* KeyError on an entry without the field.  A digest is not an item of a
\* loaded list, so the lookup in a list is False.
lookup_raises(v, cache_key, field) ==
    IF v.type = "None" THEN TRUE
    ELSE IF v.type = "list" THEN FALSE
    ELSE cache_key \in DOMAIN v.val /\ field \notin DOMAIN v.val[cache_key]

\* get_cached_articles: does it raise, and what it returns
get_cached_articles_outcome(file, topic, max_articles, clock) ==
    LET v == _load_cache_value(file)
    IN  IF lookup_raises(v, _generate_cache_key(topic, max_articles, clock), "timestamp")
        THEN [raised |-> TRUE, result |-> NoArticles]
        ELSE [raised |-> FALSE,
              result |-> IF v.type = "dict"
                         THEN get_cached_articles(file, topic, max_articles, clock)
                         ELSE NoArticles]

\* get_cached_analysis: does it raise, and what it returns
get_cached_analysis_outcome(file, arts, topic, clock) ==
    LET v == _load_cache_value(file)
    IN  IF lookup_raises(v, article_set_key(arts), "timestamp")
        THEN [raised |-> TRUE, result |-> NoAnalysis]
        ELSE [raised |-> FALSE,
              result |-> IF v.type = "dict" THEN get_cached_analysis(file, arts, topic, clock)
                         ELSE NoAnalysis]

\* cache_articles: cache[cache_key] = {...} raises TypeError on a list and
\* on None, and nothing is saved
cache_articles_outcome(file, topic, max_articles, arts, clock) ==
    IF _load_cache_value(file).type # "dict"
    THEN [raised |-> TRUE, file |-> file]
    ELSE [raised |-> FALSE, file |-> cache_articles(file, topic, max_articles, arts, clock)]

\* cache_analysis: as cache_articles
cache_analysis_outcome(file, arts, topic, result, clock) ==
    IF _load_cache_value(file).type # "dict"
    THEN [raised |-> TRUE, file |-> file]
    ELSE [raised |-> FALSE, file |-> cache_analysis(file, arts, topic, result, clock)]

\* is_article_sent: `article_url in sent` raises TypeError on None and is
\* the membership among the items of a list
is_article_sent_outcome(file, article_url) ==
    LET v == _load_cache_value(file)
    IN  IF v.type = "None" THEN [raised |-> TRUE, result |-> FALSE]
        ELSE [raised |-> FALSE, result |-> article_url \in ItemsOf(v)]

\* filter_new_articles: raises when is_article_sent does
filter_new_articles_outcome(file, arts) ==
    LET v == _load_cache_value(file)
    IN  IF v.type = "None" /\ arts # <<>> THEN [raised |-> TRUE, result |-> <<>>]
        ELSE [raised |-> FALSE,
              result |-> LET New(a) == a.url \notin ItemsOf(v) IN SelectSeq(arts, New)]

\* get_cache_stats: len() of the three loaded values; len(None) raises
get_cache_stats_outcome(fa, fn, fs) ==
    LET Size(v) == IF v.type = "list" THEN Len(v.val) ELSE Cardinality(DOMAIN v.val)
        va == _load_cache_value(fa)
        vn == _load_cache_value(fn)
        vs == _load_cache_value(fs)
    IN  IF "None" \in {va.type, vn.type, vs.type}
        THEN [raised |-> TRUE, result |-> <<0, 0, 0>>]
        ELSE [raised |-> FALSE, result |-> <<Size(va), Size(vn), Size(vs)>>]

\* does a loop of cleanup_old_cache raise on a store: cache.items() raises
\* AttributeError on a list and on None, entry[field] raises KeyError
sweep_raises(file, field) ==
    LET v == _load_cache_value(file)
    IN  v.type # "dict" \/ \E k \in DOMAIN v.val : field \notin DOMAIN v.val[k]

\* cleanup_old_cache: does it raise, and the files it leaves; the stores
\* before the one whose loop raises have been swept and saved
cleanup_old_cache_outcome(fa, fn, fs, days, clock) ==
    IF sweep_raises(fa, "timestamp")
    THEN [raised |-> TRUE, articles_cache |-> fa, analysis_cache |-> fn, sent_articles |-> fs,
          cleaned |-> 0]
    ELSE IF sweep_raises(fn, "timestamp")
    THEN [raised |-> TRUE,
          articles_cache |->
            cleanup_old_cache(fa, AbsentFile, AbsentFile, days, clock).articles_cache,
          analysis_cache |-> fn, sent_articles |-> fs, cleaned |-> 0]
    ELSE IF sweep_raises(fs, "sent_at")
    THEN [raised |-> TRUE,
          articles_cache |->
            cleanup_old_cache(fa, fn, AbsentFile, days, clock).articles_cache,
          analysis_cache |->
            cleanup_old_cache(fa, fn, AbsentFile, days, clock).analysis_cache,
          sent_articles |-> fs, cleaned |-> 0]
    ELSE LET r == cleanup_old_cache(fa, fn, fs, days, clock)
         IN  [raised |-> FALSE, articles_cache |-> r.articles_cache,
              analysis_cache |-> r.analysis_cache, sent_articles |-> r.sent_articles,
              cleaned |-> r.cleaned]


(***************************************************************************)
(* news_fetcher.py                                                         *)
(***************************************************************************)
\* 'Crypto' and 'Interstellar', the topics of news_fetcher.py
Crypto == <<67, 114, 121, 112, 116, 111>>
Interstellar == <<73, 110, 116, 101, 114, 115, 116, 101, 108, 108, 97, 114>>

\* the urls of the fallback articles, 'https://example.com/interstellar-news'
\* and 'https://example.com/crypto-news', abbreviated to "i" and "c"
FallbackInterstellarUrl == <<105>>
FallbackCryptoUrl == <<99>>

_get_fallback_interstellar_news == <<[url |-> FallbackInterstellarUrl]>>
_get_fallback_crypto_news == <<[url |-> FallbackCryptoUrl]>>

\* l[:n]
Take(l, n) == SubSeq(l, 1, IF Len(l) < n THEN Len(l) ELSE n)

\* the loops of fetch_interstellar_news over the queries and their results:
\* resp is the urls the service returns, in order; a url is taken when it is
\* non-empty and not seen, until max_articles are collected
RECURSIVE collect_articles(_, _, _)
collect_articles(resp, all_articles, max_articles) ==
    IF Len(all_articles) >= max_articles \/ Len(resp) = 0 THEN all_articles
    ELSE IF resp[1] # <<>> /\ resp[1] \notin {all_articles[i].url : i \in DOMAIN all_articles}
         THEN collect_articles(Tail(resp), Append(all_articles, [url |-> resp[1]]), max_articles)
         ELSE collect_articles(Tail(resp), all_articles, max_articles)

\* fetch_interstellar_news: the returned articles, the new articles_cache
\* file, what the cache returned and whether the service was called
fetch_interstellar_news(file, max_articles, resp, clock) ==
    LET cached == get_cached_articles(file, Interstellar, max_articles, clock)
        all_articles == collect_articles(resp, <<>>, max_articles)
        arts == Take(all_articles, max_articles)
    IN  IF TruthyList(cached)
        THEN [articles |-> cached.val, file |-> file, cached |-> cached, upstream |-> FALSE]
        ELSE IF all_articles # <<>>
        THEN [articles |-> arts,
              file |-> cache_articles(file, Interstellar, max_articles, arts, clock),
              cached |-> cached, upstream |-> TRUE]
        ELSE [articles |-> _get_fallback_interstellar_news, file |-> file,
              cached |-> cached, upstream |-> TRUE]

\* [{..., 'url': item.get('url', ...)} for item in data['Data'][:max_articles]]
RECURSIVE crypto_articles_of(_)
crypto_articles_of(data) ==
    IF Len(data) = 0 THEN <<>> ELSE <<[url |-> data[1]]>> \o crypto_articles_of(Tail(data))

\* fetch_crypto_news: resp.status is "ok" (Type 100 with Data), "bad_format"
\* or "request_error"; resp.data is the urls of Data
fetch_crypto_news(file, max_articles, resp, clock) ==
    LET cached == get_cached_articles(file, Crypto, max_articles, clock)
        arts == crypto_articles_of(Take(resp.data, max_articles))
    IN  IF TruthyList(cached)
        THEN [articles |-> cached.val, file |-> file, cached |-> cached, upstream |-> FALSE]
        ELSE IF resp.status = "ok"
        THEN [articles |-> arts,
              file |-> cache_articles(file, Crypto, max_articles, arts, clock),
              cached |-> cached, upstream |-> TRUE]
        ELSE [articles |-> _get_fallback_crypto_news, file |-> file,
              cached |-> cached, upstream |-> TRUE]

(***************************************************************************)
(* llm_analyzer.py                                                         *)
(***************************************************************************)
\* an analysis is a dict, modelled as a set of <<key, value>> pairs
_parse_text_response == {<<"sentiment", "MIXED">>}
_get_fallback_analysis == {<<"sentiment", "NEUTRAL">>}

\* analyze_news_batch with text responses left uncached
analyze_news_batch_text_uncached(file, arts, topic, llm, clock) ==
    LET cached_analysis == get_cached_analysis(file, arts, topic, clock)
    IN  IF TruthyDict(cached_analysis)
        THEN [analysis |-> cached_analysis.val, file |-> file,
              cached |-> cached_analysis, llm_called |-> FALSE, outcome |-> "cached"]
        ELSE IF llm.outcome = "json"
        THEN [analysis |-> llm.content,
              file |-> cache_analysis(file, arts, topic, llm.content, clock),
              cached |-> cached_analysis, llm_called |-> TRUE, outcome |-> "json"]
        ELSE IF llm.outcome = "text"
        THEN [analysis |-> _parse_text_response, file |-> file,
              cached |-> cached_analysis, llm_called |-> TRUE, outcome |-> "text"]
        ELSE [analysis |-> _get_fallback_analysis, file |-> file,
              cached |-> cached_analysis, llm_called |-> TRUE, outcome |-> "error"]

\* analyze_news_batch: llm.outcome is "json" (the completion parsed as JSON,
\* llm.content), "text" (it did not parse) or "error" (the call raised)
analyze_news_batch(file, arts, topic, llm, clock) ==
    LET cached_analysis == get_cached_analysis(file, arts, topic, clock)
    IN  IF TruthyDict(cached_analysis)
        THEN [analysis |-> cached_analysis.val, file |-> file,
              cached |-> cached_analysis, llm_called |-> FALSE, outcome |-> "cached"]
        ELSE IF llm.outcome = "json"
        THEN [analysis |-> llm.content,
              file |-> cache_analysis(file, arts, topic, llm.content, clock),
              cached |-> cached_analysis, llm_called |-> TRUE, outcome |-> "json"]
        ELSE IF llm.outcome = "text"
        THEN [analysis |-> _parse_text_response,
              file |-> cache_analysis(file, arts, topic, _parse_text_response, clock),
              cached |-> cached_analysis, llm_called |-> TRUE, outcome |-> "text"]
        ELSE [analysis |-> _get_fallback_analysis, file |-> file,
              cached |-> cached_analysis, llm_called |-> TRUE, outcome |-> "error"]

\* the articles linked in the message of generate_discord_message: articles[:5]
featured_articles(arts) == Take(arts, 5)

(***************************************************************************)
(* Values shared by the specifications.                                    *)
(***************************************************************************)
\* the urls "a", "b" and "ab"
UrlA == <<97>>
UrlB == <<98>>
UrlAB == <<97, 98>>

Article(u) == [url |-> u]

\* lists of articles with urls in U, of length at most n
ArticleLists(U, n) == UNION {[1..k -> {Article(u) : u \in U}] : k \in 0..n}

UrlSet(arts) == {arts[i].url : i \in DOMAIN arts}

DayOf(t) == t \div HoursPerDay

\* no call of the fetcher or the analyzer has just returned
NoCall == [call |-> "none"]

\* the variables a specification does not use keep these values
IdleStores ==
    /\ articles_cache = AbsentFile
    /\ analysis_cache = AbsentFile
    /\ sent_articles = AbsentFile
IdleKey == probes = <<>> /\ tasks = <<>>
IdleApi ==
    /\ ret = [op |-> "none"]
    /\ fput = <<>>
    /\ aput = [some |-> FALSE]
    /\ nput = 0
IdlePipe ==
    /\ pc = "off"
    /\ mode = "once"
    /\ articles = <<>>
    /\ delivered = <<>>
    /\ lastCall = NoCall
    /\ cycles = 0

(***************************************************************************)
(* SpecKey: the two fingerprint functions applied to bounded inputs.       *)
(***************************************************************************)
\* the topics of the program, and the topics "a" and "a_1"
KeyTopics == {Crypto, Interstellar, <<97>>, <<97, ChUnderscore, ChZero + 1>>}
KeyCounts == {0, 1, 10}
KeyUrls == {UrlA, UrlB, UrlAB}
KeyTicks == {6, 25}

InitKey ==
    /\ now = 0
    /\ probes = <<>>
    /\ tasks = <<>>
    /\ IdleStores /\ IdleApi /\ IdlePipe

\* one call of _generate_cache_key at the current time; the fingerprint claims
\* compare two calls, so a behaviour makes two
ProbeFetchKey(topic, n) ==
    /\ Len(probes) < 2
    /\ probes' = Append(probes, [kind |-> "fetch", topic |-> topic, n |-> n, at |-> now,
                                 key |-> _generate_cache_key(topic, n, now)])
    /\ UNCHANGED <<now, tasks, storeVars, apiVars, pipeVars>>

\* one computation of the analysis cache key (cache_manager.py lines 98-99, 115-116)
ProbeSetKey(arts) ==
    /\ Len(probes) < 2
    /\ probes' = Append(probes, [kind |-> "set", arts |-> arts,
                                 input |-> article_set_input(arts),
                                 key |-> article_set_key(arts)])
    /\ UNCHANGED <<now, tasks, storeVars, apiVars, pipeVars>>

KeyTick(d) ==
    /\ now + d <= MaxKeyNow
    /\ now' = now + d
    /\ UNCHANGED <<keyVars, storeVars, apiVars, pipeVars>>

NextKey ==
    \/ \E topic \in KeyTopics, n \in KeyCounts : ProbeFetchKey(topic, n)
    \/ \E arts \in ArticleLists(KeyUrls, MaxArticles) : ProbeSetKey(arts)
    \/ \E d \in KeyTicks : KeyTick(d)

SpecKey == InitKey /\ [][NextKey]_vars

FetchProbes == {i \in DOMAIN probes : probes[i].kind = "fetch"}
SetProbes == {i \in DOMAIN probes : probes[i].kind = "set"}

\* C8 (as claimed): two article batches with different sets of URLs never
\* hash the same string, hence never share an analysis-cache key.
C8_DistinctSetsDistinctKeys ==
    \A i, j \in SetProbes :
        UrlSet(probes[i].arts) # UrlSet(probes[j].arts)
            => /\ probes[i].input # probes[j].input
               /\ probes[i].key # probes[j].key

\* C10: fetch_key is the same for identical arguments on one calendar day,
\* differs between two calendar days, and differs between different
\* (topic, n) pairs on one day.
C10_FetchKeyDeterminism ==
    \A i, j \in FetchProbes :
        LET p == probes[i]
            q == probes[j]
            sameArgs == p.topic = q.topic /\ p.n = q.n
            sameDay == DayOf(p.at) = DayOf(q.at)
        IN  /\ (sameArgs /\ sameDay) => p.key = q.key
            /\ (sameArgs /\ ~sameDay) => p.key # q.key
            /\ (~sameArgs /\ sameDay) => p.key # q.key

\* C10 witness: the same arguments fingerprinted on two different days less
\* than 24 hours apart
C10_Witness ==
    /\ Len(probes) = 2 /\ FetchProbes = {1, 2}
    /\ probes[1].topic = probes[2].topic /\ probes[1].n = probes[2].n
    /\ DayOf(probes[1].at) # DayOf(probes[2].at)
    /\ probes[2].at - probes[1].at < HoursPerDay
    /\ probes[1].key # probes[2].key


(***************************************************************************)
(* SpecCache: the public operations of one CacheManager called with        *)
(* bounded arguments while the clock advances.  ret is the call that has   *)
(* just returned, with its result, at the current time; fput and aput remember the latest cache_articles call per   *)
(* (topic, max_articles) and the latest cache_analysis call, and are       *)
(* forgotten at a cleanup or a clear.                                      *)
(***************************************************************************)
ApiPairs == {<<Crypto, 10>>, <<Crypto, 5>>, <<Interstellar, 10>>}
ApiFetchLists == {<<Article(UrlA), Article(UrlB)>>, <<Article(UrlB), Article(UrlA)>>}
ApiSetLists == ApiFetchLists \cup {<<Article(UrlAB)>>, <<Article(UrlB)>>}
\* the analyses a JSON completion may hold: a dict with a sentiment, and {}
AnalysisMixed == {<<"sentiment", "MIXED">>}
AnalysisVals == {AnalysisMixed, {}}
ApiDays == {1, 7}
ApiTicks == {6, 25}

NoPut == [some |-> FALSE]

InitCache ==
    /\ now = 0
    /\ articles_cache = AbsentFile
    /\ analysis_cache = AbsentFile
    /\ sent_articles = AbsentFile
    /\ ret = [op |-> "none"]
    /\ fput = [p \in ApiPairs |-> NoPut]
    /\ aput = NoPut
    /\ nput = 0
    /\ IdleKey /\ IdlePipe

GetCachedArticles(topic, n) ==
    /\ ret' = [op |-> "get_cached_articles", topic |-> topic, n |-> n,
               result |-> get_cached_articles(articles_cache, topic, n, now)]
    /\ UNCHANGED <<now, storeVars, fput, aput, nput, keyVars, pipeVars>>

CacheArticles(topic, n, arts) ==
    /\ nput < MaxPuts
    /\ nput' = nput + 1
    /\ articles_cache' = cache_articles(articles_cache, topic, n, arts, now)
    /\ ret' = [op |-> "cache_articles", topic |-> topic, n |-> n]
    /\ fput' = [fput EXCEPT ![<<topic, n>>] = [some |-> TRUE, at |-> now, arts |-> arts]]
    /\ UNCHANGED <<now, analysis_cache, sent_articles, aput, keyVars, pipeVars>>

GetCachedAnalysis(arts, topic) ==
    /\ ret' = [op |-> "get_cached_analysis", arts |-> arts, topic |-> topic,
               key |-> article_set_key(arts),
               result |-> get_cached_analysis(analysis_cache, arts, topic, now)]
    /\ UNCHANGED <<now, storeVars, fput, aput, nput, keyVars, pipeVars>>

CacheAnalysis(arts, topic, result) ==
    /\ nput < MaxPuts
    /\ nput' = nput + 1
    /\ analysis_cache' = cache_analysis(analysis_cache, arts, topic, result, now)
    /\ ret' = [op |-> "cache_analysis", arts |-> arts, topic |-> topic]
    /\ aput' = [some |-> TRUE, at |-> now, arts |-> arts, topic |-> topic,
                key |-> article_set_key(arts), analysis |-> result]
    /\ UNCHANGED <<now, articles_cache, sent_articles, fput, keyVars, pipeVars>>

CleanupOldCache(days) ==
    \E r \in {cleanup_old_cache(articles_cache, analysis_cache, sent_articles, days, now)} :
        /\ articles_cache' = r.articles_cache
        /\ analysis_cache' = r.analysis_cache
        /\ sent_articles' = r.sent_articles
        /\ ret' = [op |-> "cleanup_old_cache", days |-> days, result |-> r.cleaned]
        /\ fput' = [p \in ApiPairs |-> NoPut]
        /\ aput' = NoPut
        /\ UNCHANGED <<now, nput, keyVars, pipeVars>>

ClearCache ==
    /\ articles_cache' = clear_cache(articles_cache)
    /\ analysis_cache' = clear_cache(analysis_cache)
    /\ sent_articles' = clear_cache(sent_articles)
    /\ ret' = [op |-> "clear_cache"]
    /\ fput' = [p \in ApiPairs |-> NoPut]
    /\ aput' = NoPut
    /\ UNCHANGED <<now, nput, keyVars, pipeVars>>

ApiTick(d) ==
    /\ now + d <= MaxApiNow
    /\ now' = now + d
    /\ ret' = [op |-> "none"]
    /\ UNCHANGED <<storeVars, fput, aput, nput, keyVars, pipeVars>>

\* the fetch cache and the store-wide operations
NextCache ==
    \/ \E p \in ApiPairs : GetCachedArticles(p[1], p[2])
    \/ \E p \in ApiPairs, arts \in ApiFetchLists : CacheArticles(p[1], p[2], arts)
    \/ \E days \in ApiDays : CleanupOldCache(days)
    \/ ClearCache
    \/ \E d \in ApiTicks : ApiTick(d)

SpecCache == InitCache /\ [][NextCache]_vars

\* the analysis cache and the store-wide operations
NextAnalysisCache ==
    \/ \E arts \in ApiSetLists : GetCachedAnalysis(arts, Crypto)
    \/ \E arts \in ApiSetLists, x \in AnalysisVals : CacheAnalysis(arts, Crypto, x)
    \/ \E days \in ApiDays : CleanupOldCache(days)
    \/ ClearCache
    \/ \E d \in ApiTicks : ApiTick(d)

SpecAnalysisCache == InitCache /\ [][NextAnalysisCache]_vars

\* the latest put under the arguments of the get that ret holds
PutOfGet == fput[<<ret.topic, ret.n>>]

\* C3 (as claimed): a get issued less than 24 hours after a put under the
\* same arguments, at any time of day, returns the sequence that was put.
C3_HitWithin24h ==
    (/\ ret.op = "get_cached_articles"
     /\ PutOfGet.some
     /\ now - PutOfGet.at < article_cache_expiry)
        => ret.result = Some(PutOfGet.arts)

\* C3 (amended): a get issued less than 24 hours after a put under the same
\* arguments and on the calendar day of the put returns the sequence that
\* was put.
C3_HitSameDay ==
    (/\ ret.op = "get_cached_articles"
     /\ PutOfGet.some
     /\ now - PutOfGet.at < article_cache_expiry
     /\ DayOf(now) = DayOf(PutOfGet.at))
        => ret.result = Some(PutOfGet.arts)

\* C3 witness: a get some hours after a put, on the same day, that hit
C3_Witness ==
    /\ ret.op = "get_cached_articles"
    /\ PutOfGet.some
    /\ now > PutOfGet.at
    /\ DayOf(now) = DayOf(PutOfGet.at)
    /\ ret.result = Some(<<Article(UrlB), Article(UrlA)>>)

\* the key the fetch get of ret looked under is in the fetch store
FoundByGet ==
    _generate_cache_key(ret.topic, ret.n, now) \in DOMAIN _load_cache(articles_cache)

\* C29: with a non-decreasing clock, a fetch record that get finds under the
\* key of the current day is never expired under the 24-hour window (a get
\* that finds a record returns its articles), and every miss after a put
\* happens on another day than the put.
C29_FoundIsFresh ==
    ret.op = "get_cached_articles" =>
        /\ FoundByGet => ret.result =
                Some(_load_cache(articles_cache)[_generate_cache_key(ret.topic, ret.n, now)].articles)
        /\ (PutOfGet.some /\ ~ret.result.some) => DayOf(now) # DayOf(PutOfGet.at)

\* C29 witness: a get missed six hours after the put, past midnight, with the
\* record of the put still in the store
C29_Witness ==
    /\ ret.op = "get_cached_articles"
    /\ PutOfGet.some
    /\ now - PutOfGet.at = 6
    /\ ret.result = NoArticles
    /\ ~FoundByGet
    /\ _generate_cache_key(ret.topic, ret.n, PutOfGet.at) \in DOMAIN _load_cache(articles_cache)

\* C4: on an empty fetch cache get("Crypto", 10) returns nothing; after
\* put("Crypto", 10, [a1, a2]) a get on the same calendar day returns
\* [a1, a2]; 25 hours after the put the get returns nothing.
C4_Scenario ==
    LET a1a2 == <<Article(UrlA), Article(UrlB)>>
        isGet == ret.op = "get_cached_articles" /\ ret.topic = Crypto /\ ret.n = 10
        put == fput[<<Crypto, 10>>]
    IN  /\ (isGet /\ DOMAIN _load_cache(articles_cache) = {}) => ret.result = NoArticles
        /\ (isGet /\ put.some /\ put.arts = a1a2 /\ DayOf(now) = DayOf(put.at))
                => ret.result = Some(a1a2)
        /\ (isGet /\ put.some /\ now = put.at + 25) => ret.result = NoArticles

\* C4 witness: the last step of the scenario, a miss 25 hours after the put
C4_Witness ==
    /\ ret.op = "get_cached_articles" /\ ret.topic = Crypto /\ ret.n = 10
    /\ fput[<<Crypto, 10>>].some
    /\ fput[<<Crypto, 10>>].arts = <<Article(UrlA), Article(UrlB)>>
    /\ now = fput[<<Crypto, 10>>].at + 25
    /\ ret.result = NoArticles

IsPermutation(A, B) ==
    /\ Len(A) = Len(B)
    /\ \E f \in [DOMAIN A -> DOMAIN B] :
        /\ \A i, j \in DOMAIN A : i # j => f[i] # f[j]
        /\ \A i \in DOMAIN A : A[i] = B[f[i]]

\* C9: the analysis cache key of a permutation P of A equals that of A, and
\* put(A, t, x) followed by get(P, t) within 24 hours returns x.
C9_OrderIndependent ==
    (/\ ret.op = "get_cached_analysis"
     /\ aput.some
     /\ IsPermutation(ret.arts, aput.arts)
     /\ now - aput.at <= analysis_cache_expiry)
        => /\ ret.key = aput.key
           /\ ret.result = Some(aput.analysis)

\* C9 witness: a list was put and the get of its reversal, hours later, hit
C9_Witness ==
    /\ ret.op = "get_cached_analysis"
    /\ aput.some
    /\ aput.arts = <<Article(UrlB), Article(UrlA)>>
    /\ ret.arts = <<Article(UrlA), Article(UrlB)>>
    /\ now = aput.at + analysis_cache_expiry
    /\ ret.result = Some(aput.analysis)


(***************************************************************************)
(* Spec: the digest pipeline of main.py.  A process starts (Startup),      *)
(* runs fetch_and_send_news step by step, sleeps six hours between digests *)
(* in schedule mode, and may be stopped and started again at any point.    *)
(* delivered counts, per article url, the digests that reached the channel *)
(* with the url in them; lastCall is the call of the fetcher or of the     *)
(* analyzer that has just returned.                                        *)
(***************************************************************************)
\* what NewsAPI.ai returns over the queries: nothing, or urls with a repeat
InterstellarResponses == {<<>>, <<UrlA, UrlA, UrlB>>, <<UrlB, UrlA>>}
\* what CryptoCompare returns
CryptoResponses ==
    {[status |-> "ok", data |-> d] : d \in {<<>>, <<UrlA, UrlB>>}}
        \cup {[status |-> st, data |-> <<>>] : st \in {"bad_format", "request_error"}}
\* what the LLM call does
LlmResponses ==
    {[outcome |-> "json", content |-> x] : x \in AnalysisVals}
        \cup {[outcome |-> o, content |-> {}] : o \in {"text", "error"}}
Modes == {"once", "schedule"}
Downtimes == {0, 25}
\* asyncio.sleep(21600) in hours
SleepHours == 6
\* max_articles of the two fetches of fetch_and_send_news
PipelineMaxArticles == 10
\* days of the cleanup_old_cache call of NewscasterBot.__init__
StartupCleanupDays == 7
InterstellarTitle == "Interstellar Object 3I/ATLAS"
CryptoTitle == "Crypto Markets"

AnalyzePcs == {"t1_analyze", "t2_analyze"}
SendPcs == {"t1_send", "t2_send"}
EndOfDigest == IF mode = "schedule" THEN "sleep" ELSE "done"

Init ==
    /\ now = 0
    /\ articles_cache = AbsentFile
    /\ analysis_cache = AbsentFile
    /\ sent_articles = AbsentFile
    /\ pc = "boot"
    /\ mode = "once"
    /\ articles = <<>>
    /\ delivered = <<>>
    /\ lastCall = NoCall
    /\ cycles = 0
    /\ IdleKey /\ IdleApi

\* NewscasterBot.__init__ with its cleanup_old_cache(days=7), then run(mode)
\* up to the first call of fetch_and_send_news
Startup(m) ==
    /\ pc = "boot"
    /\ cycles < MaxCycles
    /\ \E r \in {cleanup_old_cache(articles_cache, analysis_cache, sent_articles,
                                   StartupCleanupDays, now)} :
        /\ articles_cache' = r.articles_cache
        /\ analysis_cache' = r.analysis_cache
        /\ sent_articles' = r.sent_articles
    /\ mode' = m
    /\ pc' = "t1_fetch"
    /\ cycles' = cycles + 1
    /\ lastCall' = NoCall
    /\ UNCHANGED <<now, articles, delivered, keyVars, apiVars>>

\* fetch_and_send_news, step 1: fetch_interstellar_news(max_articles=10)
FetchInterstellar(resp) ==
    /\ pc = "t1_fetch"
    /\ \E r \in {fetch_interstellar_news(articles_cache, PipelineMaxArticles, resp, now)} :
        /\ articles_cache' = r.file
        /\ articles' = r.articles
        /\ lastCall' = [call |-> "fetch", topic |-> Interstellar, cached |-> r.cached,
                        upstream |-> r.upstream, articles |-> r.articles]
        /\ pc' = IF r.articles # <<>> THEN "t1_analyze" ELSE "t2_fetch"
    /\ UNCHANGED <<now, analysis_cache, sent_articles, mode, delivered, cycles,
                   keyVars, apiVars>>

\* fetch_and_send_news, step 2: fetch_crypto_news(max_articles=10)
FetchCrypto(resp) ==
    /\ pc = "t2_fetch"
    /\ \E r \in {fetch_crypto_news(articles_cache, PipelineMaxArticles, resp, now)} :
        /\ articles_cache' = r.file
        /\ articles' = r.articles
        /\ lastCall' = [call |-> "fetch", topic |-> Crypto, cached |-> r.cached,
                        upstream |-> r.upstream, articles |-> r.articles]
        /\ pc' = IF r.articles # <<>> THEN "t2_analyze" ELSE EndOfDigest
    /\ UNCHANGED <<now, analysis_cache, sent_articles, mode, delivered, cycles,
                   keyVars, apiVars>>

\* analyze_news_batch and generate_discord_message for the fetched articles
Analyze(llm) ==
    /\ pc \in AnalyzePcs
    /\ LET topic == IF pc = "t1_analyze" THEN InterstellarTitle ELSE CryptoTitle
       IN  \E r \in {analyze_news_batch(analysis_cache, articles, topic, llm, now)} :
            /\ analysis_cache' = r.file
            /\ lastCall' = [call |-> "analyze", topic |-> topic, arts |-> articles,
                            cached |-> r.cached, llm_called |-> r.llm_called,
                            outcome |-> r.outcome, analysis |-> r.analysis]
    /\ pc' = IF pc = "t1_analyze" THEN "t1_send" ELSE "t2_send"
    /\ UNCHANGED <<now, articles_cache, sent_articles, mode, articles, delivered, cycles,
                   keyVars, apiVars>>

\* the urls of a digest message and, per url, the digests delivered with it
\* (counted up to two)
DigestUrls == UrlSet(featured_articles(articles))
CountDelivery(d, U) ==
    [u \in (DOMAIN d) \cup U |->
        IF u \in U THEN (IF u \in DOMAIN d THEN (IF d[u] < 2 THEN d[u] + 1 ELSE d[u]) ELSE 1)
        ELSE d[u]]

\* await send_message(message): ok is what it returns; fetch_and_send_news
\* does nothing else after it
SendMessage(ok) ==
    /\ pc \in SendPcs
    /\ delivered' = IF ok THEN CountDelivery(delivered, DigestUrls) ELSE delivered
    /\ pc' = IF pc = "t1_send" THEN "t2_fetch" ELSE EndOfDigest
    /\ lastCall' = NoCall
    /\ UNCHANGED <<now, storeVars, mode, articles, cycles, keyVars, apiVars>>

\* start_with_schedule: asyncio.sleep(21600), then the next fetch_and_send_news
Sleep ==
    /\ pc = "sleep"
    /\ cycles < MaxCycles
    /\ now + SleepHours <= MaxNow
    /\ now' = now + SleepHours
    /\ cycles' = cycles + 1
    /\ pc' = "t1_fetch"
    /\ lastCall' = NoCall
    /\ UNCHANGED <<storeVars, mode, articles, delivered, keyVars, apiVars>>

\* the process stops (Ctrl+C, crash) and is started again d hours later
Restart(d) ==
    /\ pc # "boot"
    /\ cycles < MaxCycles
    /\ now + d <= MaxNow
    /\ now' = now + d
    /\ pc' = "boot"
    /\ articles' = <<>>
    /\ lastCall' = NoCall
    /\ UNCHANGED <<storeVars, mode, delivered, cycles, keyVars, apiVars>>

Next ==
    \/ \E m \in Modes : Startup(m)
    \/ \E resp \in InterstellarResponses : FetchInterstellar(resp)
    \/ \E resp \in CryptoResponses : FetchCrypto(resp)
    \/ \E llm \in LlmResponses : Analyze(llm)
    \/ \E ok \in BOOLEAN : SendMessage(ok)
    \/ Sleep
    \/ \E d \in Downtimes : Restart(d)

Spec == Init /\ [][Next]_vars

\* C1 (as claimed): no article url is delivered to the channel in more than
\* one digest, across digest cycles and process restarts.
C1_DeliveredAtMostOnce ==
    \A u \in DOMAIN delivered : delivered[u] <= 1

\* C2 (as claimed): when a digest cycle starts, every article url of a digest
\* that was delivered successfully before is in the sent-article ledger.
C2_LedgerHoldsDelivered ==
    pc = "t1_fetch" =>
        \A u \in DOMAIN delivered : delivered[u] > 0 => is_article_sent(sent_articles, u)

\* C5 (as claimed): a fetch that finds a fresh cache record, the empty list
\* included, returns the record without calling the upstream service.
C5_FreshRecordSkipsUpstream ==
    (lastCall.call = "fetch" /\ lastCall.cached.some)
        => /\ ~lastCall.upstream
           /\ lastCall.articles = lastCall.cached.val

\* C6 (as claimed): an analysis that finds a fresh record for its article set,
\* whatever the cached value, makes no LLM call and returns the record.
C6_FreshAnalysisSkipsLLM ==
    (lastCall.call = "analyze" /\ lastCall.cached.some)
        => /\ ~lastCall.llm_called
           /\ lastCall.analysis = lastCall.cached.val

\* the record of the analysed article set in the analysis store
AnalyzedRecordExists ==
    article_set_key(lastCall.arts) \in DOMAIN _load_cache(analysis_cache)

\* C7 (as claimed): after analyze_news_batch completes on a cache miss a
\* record exists under the key of the articles, after a successful LLM call
\* and after the fallback analysis alike.
C7_RecordAfterEveryMiss ==
    (lastCall.call = "analyze" /\ lastCall.llm_called) => AnalyzedRecordExists

\* C7 (amended): after analyze_news_batch completes on a cache miss with a
\* successful LLM call (a JSON or a text response) a record holding the
\* returned analysis exists under the key of the articles; when the LLM call
\* failed and the fallback analysis is returned, the analysis store is left
\* as it was.
C7_RecordAfterLLMSuccess ==
    [][(pc \in AnalyzePcs /\ pc' \in SendPcs) =>
        LET la == lastCall'
            key == article_set_key(la.arts)
            cache == _load_cache(analysis_cache')
        IN  /\ (la.llm_called /\ la.outcome \in {"json", "text"})
                => (key \in DOMAIN cache /\ cache[key].analysis = la.analysis)
            /\ (la.llm_called /\ la.outcome = "error")
                => analysis_cache' = analysis_cache]_vars

\* C7 witness: a text response was analysed on a miss and its record exists
C7_Witness ==
    /\ lastCall.call = "analyze"
    /\ lastCall.llm_called
    /\ lastCall.outcome = "text"
    /\ AnalyzedRecordExists

(***************************************************************************)
(* SpecSweep: the expiry policy, the reads and cleanup_old_cache on stores *)
(* left by earlier runs.  The clock starts at 2026-02-01T00:00; the stores *)
(* hold records written up to 30 days before, and records whose timestamp  *)
(* is not an ISO timestamp.                                                *)
(***************************************************************************)
\* number of hours the clock advances in one behaviour
MaxSweepTicks == 2

SweepStart == 31 * HoursPerDay

\* the strings 'x', '' and '2026-13-01T00:00:00'
BadTimestamp == <<120>>
BadTimestamps ==
    {BadTimestamp, <<>>,
     Str(EpochYear) \o <<ChDash>> \o Pad2(13) \o <<ChDash>> \o Pad2(1) \o <<ChT>>
        \o Pad2(0) \o <<ChColon>> \o Pad2(0) \o <<ChColon>> \o Pad2(0)}

\* the times at which the records of the stores were written
SweepWriteTimes ==
    {SweepStart, SweepStart - article_cache_expiry, SweepStart - 7 * HoursPerDay,
     SweepStart - 30 * HoursPerDay}
\* the windows _is_expired is called with
SweepWindows == {0, article_cache_expiry, 7 * HoursPerDay, 30 * HoursPerDay}
SweepDays == {0, 1, 7, 31}
SweepLists == {<<Article(UrlA), Article(UrlB)>>, <<Article(UrlB)>>}

\* the timestamp of a record: c is "good" (isoformat of the write time w) or
\* "bad"
SweepStamp(c, w) == IF c = "good" THEN isoformat(w) ELSE BadTimestamp

\* the record cache_articles wrote at time w, or none
SweepPutArticles(d, c, w) ==
    IF c = "absent" THEN d
    ELSE DictPut(d, _generate_cache_key(Crypto, PipelineMaxArticles, w),
                 [topic |-> Crypto, timestamp |-> SweepStamp(c, w),
                  articles |-> <<Article(UrlA)>>])

\* the record cache_analysis wrote at time w, or none
SweepPutAnalysis(d, c, arts, w) ==
    IF c = "absent" THEN d
    ELSE DictPut(d, article_set_key(arts),
                 [topic |-> Crypto, timestamp |-> SweepStamp(c, w),
                  article_count |-> Len(arts), analysis |-> AnalysisMixed])

\* the mark mark_article_sent wrote at time w, or none
SweepPutSent(d, c, url, w) ==
    IF c = "absent" THEN d
    ELSE DictPut(d, url, [topic |-> Crypto, sent_at |-> SweepStamp(c, w)])

SweepFile(d) == IF DOMAIN d = {} THEN AbsentFile ELSE _save_cache(AbsentFile, d)

SweepArticleFiles ==
    {SweepFile(SweepPutArticles(SweepPutArticles(SweepPutArticles(EmptyDict,
            c0, SweepStart), c1, SweepStart - article_cache_expiry),
            c7, SweepStart - 7 * HoursPerDay)) :
        c0 \in {"absent", "good", "bad"}, c1 \in {"absent", "good"}, c7 \in {"absent", "good"}}

SweepAnalysisFiles ==
    {SweepFile(SweepPutAnalysis(SweepPutAnalysis(EmptyDict,
            c1, <<Article(UrlA), Article(UrlB)>>, SweepStart - analysis_cache_expiry),
            c7, <<Article(UrlB)>>, SweepStart - 7 * HoursPerDay)) :
        c1 \in {"absent", "good", "bad"}, c7 \in {"absent", "good"}}

SweepSentFiles ==
    {SweepFile(SweepPutSent(SweepPutSent(EmptyDict,
            c0, UrlA, SweepStart), c30, UrlB, SweepStart - 30 * HoursPerDay)) :
        c0 \in {"absent", "good"}, c30 \in {"absent", "good", "bad"}}

InitSweep ==
    /\ now = SweepStart
    /\ articles_cache \in SweepArticleFiles
    /\ analysis_cache \in SweepAnalysisFiles
    /\ sent_articles \in SweepSentFiles
    /\ ret = [op |-> "none"]
    /\ fput = <<>>
    /\ aput = [some |-> FALSE]
    /\ nput = 0
    /\ IdleKey /\ IdlePipe

\* _is_expired on the timestamp of a record written at time w
IsExpired(w, expiry_hours) ==
    /\ ret' = [op |-> "_is_expired", written |-> w, parses |-> TRUE,
               timestamp |-> isoformat(w), expiry_hours |-> expiry_hours,
               result |-> _is_expired(isoformat(w), expiry_hours, now)]
    /\ UNCHANGED <<now, storeVars, fput, aput, nput, keyVars, pipeVars>>

\* _is_expired on a timestamp that is not an ISO timestamp
IsExpiredUnparsed(timestamp, expiry_hours) ==
    /\ ret' = [op |-> "_is_expired", written |-> 0, parses |-> FALSE,
               timestamp |-> timestamp, expiry_hours |-> expiry_hours,
               result |-> _is_expired(timestamp, expiry_hours, now)]
    /\ UNCHANGED <<now, storeVars, fput, aput, nput, keyVars, pipeVars>>

\* cleanup_old_cache; the files as they were before the call are kept in ret
Cleanup(days) ==
    \E r \in {cleanup_old_cache(articles_cache, analysis_cache, sent_articles, days, now)} :
        /\ articles_cache' = r.articles_cache
        /\ analysis_cache' = r.analysis_cache
        /\ sent_articles' = r.sent_articles
        /\ ret' = [op |-> "cleanup_old_cache", days |-> days, result |-> r.cleaned,
                   articles_before |-> articles_cache, analysis_before |-> analysis_cache,
                   sent_before |-> sent_articles]
        /\ UNCHANGED <<now, fput, aput, nput, keyVars, pipeVars>>

SweepTick ==
    /\ now < SweepStart + MaxSweepTicks
    /\ now' = now + 1
    /\ ret' = [op |-> "none"]
    /\ UNCHANGED <<storeVars, fput, aput, nput, keyVars, pipeVars>>

NextSweep ==
    \/ \E w \in SweepWriteTimes, h \in SweepWindows : IsExpired(w, h)
    \/ \E t \in BadTimestamps, h \in SweepWindows : IsExpiredUnparsed(t, h)
    \/ GetCachedArticles(Crypto, PipelineMaxArticles)
    \/ \E arts \in SweepLists : GetCachedAnalysis(arts, Crypto)
    \/ \E days \in SweepDays : Cleanup(days)
    \/ SweepTick

SpecSweep == InitSweep /\ [][NextSweep]_vars

\* C11: for a record written at time T with window W, is_expired is false at
\* every current time up to and including T+W and true at every current
\* time strictly after T+W.
C11_ExpiryBoundary ==
    (ret.op = "_is_expired" /\ ret.parses) =>
        /\ (now <= ret.written + ret.expiry_hours) => ~ret.result
        /\ (now > ret.written + ret.expiry_hours) => ret.result

\* C11 witness: is_expired was asked exactly at T+W, for a window of 24 hours
C11_Witness ==
    /\ ret.op = "_is_expired" /\ ret.parses
    /\ ret.expiry_hours = article_cache_expiry
    /\ now = ret.written + ret.expiry_hours
    /\ ~ret.result

\* the record the fetch get of ret looked at, if the store holds one
RecordOfGet ==
    LET cache == _load_cache(articles_cache)
        key == _generate_cache_key(ret.topic, ret.n, now)
    IN  IF key \in DOMAIN cache THEN Some(cache[key]) ELSE [some |-> FALSE]

\* C12: a record whose timestamp cannot be parsed is treated as expired:
\* is_expired is true for it for every window, and a get that finds such a
\* record (in the fetch store or in the analysis store) returns nothing.
C12_UnparsedIsExpired ==
    /\ (ret.op = "_is_expired" /\ ~ret.parses) => ret.result
    /\ (ret.op = "get_cached_articles" /\ RecordOfGet.some
            /\ ~iso_parses(RecordOfGet.val.timestamp))
        => ret.result = NoArticles
    /\ (ret.op = "get_cached_analysis" /\ ret.key \in DOMAIN _load_cache(analysis_cache)
            /\ ~iso_parses(_load_cache(analysis_cache)[ret.key].timestamp))
        => ret.result = NoAnalysis

\* C12 witness: the fetch get found a record with the timestamp 'x' under the
\* key of the day and returned nothing
C12_Witness ==
    /\ ret.op = "get_cached_articles"
    /\ RecordOfGet.some
    /\ RecordOfGet.val.timestamp = BadTimestamp
    /\ ret.result = NoArticles

\* the age in hours of a timestamp that parses
AgeOf(timestamp) == now - fromisoformat(timestamp)

\* the record is within the 24-hour freshness window
FreshEntry(entry) ==
    iso_parses(entry.timestamp) /\ AgeOf(entry.timestamp) <= article_cache_expiry

\* the keys of the store `before` that are still in the store `after`, with
\* the same record
Survivors(before, after) ==
    {k \in DOMAIN _load_cache(before) :
        k \in DOMAIN _load_cache(after) /\ _load_cache(after)[k] = _load_cache(before)[k]}

\* C16: for every retention_days >= 1, cleanup removes no fetch or analysis
\* record that is within the 24-hour freshness window, and a get that hit
\* before the cleanup returns the same after it.
C16_SweepSafety ==
    (ret.op = "cleanup_old_cache" /\ ret.days >= 1) =>
        /\ \A k \in DOMAIN _load_cache(ret.articles_before) :
                FreshEntry(_load_cache(ret.articles_before)[k])
                    => k \in Survivors(ret.articles_before, articles_cache)
        /\ \A k \in DOMAIN _load_cache(ret.analysis_before) :
                FreshEntry(_load_cache(ret.analysis_before)[k])
                    => k \in Survivors(ret.analysis_before, analysis_cache)
        /\ LET hit == get_cached_articles(ret.articles_before, Crypto, PipelineMaxArticles, now)
           IN  hit.some
                => get_cached_articles(articles_cache, Crypto, PipelineMaxArticles, now) = hit
        /\ \A arts \in SweepLists :
                LET hit == get_cached_analysis(ret.analysis_before, arts, Crypto, now)
                IN  hit.some => get_cached_analysis(analysis_cache, arts, Crypto, now) = hit

\* C16 witness: cleanup(1) removed a fetch record and the fetch get of the
\* day still hits
C16_Witness ==
    /\ ret.op = "cleanup_old_cache" /\ ret.days = 1
    /\ now > SweepStart
    /\ Cardinality(DOMAIN _load_cache(articles_cache))
            < Cardinality(DOMAIN _load_cache(ret.articles_before))
    /\ get_cached_articles(articles_cache, Crypto, PipelineMaxArticles, now).some

\* the records of a store that cleanup(days) is to keep: those whose
\* timestamp parses and is not more than days*24 hours old
Retained(before, days) ==
    {k \in DOMAIN _load_cache(before) :
        /\ iso_parses(_load_cache(before)[k].timestamp)
        /\ AgeOf(_load_cache(before)[k].timestamp) <= days * HoursPerDay}

\* C17: cleanup(retention_days) removes from the fetch store and from the
\* analysis store exactly the records older than retention_days*24 hours or
\* with an unparseable timestamp, and every surviving record is unchanged
\* under its key.
C17_SweepExact ==
    ret.op = "cleanup_old_cache" =>
        /\ DOMAIN _load_cache(articles_cache) = Retained(ret.articles_before, ret.days)
        /\ Survivors(ret.articles_before, articles_cache) = DOMAIN _load_cache(articles_cache)
        /\ DOMAIN _load_cache(analysis_cache) = Retained(ret.analysis_before, ret.days)
        /\ Survivors(ret.analysis_before, analysis_cache) = DOMAIN _load_cache(analysis_cache)

\* C17 witness: cleanup(7) removed a fetch record and an analysis record and
\* kept one of each
C17_Witness ==
    /\ ret.op = "cleanup_old_cache" /\ ret.days = 7
    /\ DOMAIN _load_cache(articles_cache) # {}
    /\ DOMAIN _load_cache(articles_cache) # DOMAIN _load_cache(ret.articles_before)
    /\ DOMAIN _load_cache(analysis_cache) # {}
    /\ DOMAIN _load_cache(analysis_cache) # DOMAIN _load_cache(ret.analysis_before)

\* the number of entries a store lost
Removed(before, after) ==
    Cardinality(DOMAIN _load_cache(before)) - Cardinality(DOMAIN _load_cache(after))

\* C18: the value cleanup returns is the number of entries it removed from
\* the three stores together (sizes before minus sizes after), and 0 when
\* nothing was removed.
C18_CleanupCount ==
    ret.op = "cleanup_old_cache" =>
        /\ ret.result = Removed(ret.articles_before, articles_cache)
                        + Removed(ret.analysis_before, analysis_cache)
                        + Removed(ret.sent_before, sent_articles)
        /\ (<<ret.articles_before, ret.analysis_before, ret.sent_before>>
                = <<articles_cache, analysis_cache, sent_articles>>) => ret.result = 0

\* C18 witness: cleanup removed entries from each of the three stores
C18_Witness ==
    /\ ret.op = "cleanup_old_cache"
    /\ Removed(ret.articles_before, articles_cache) > 0
    /\ Removed(ret.analysis_before, analysis_cache) > 0
    /\ Removed(ret.sent_before, sent_articles) > 0
    /\ ret.result >= 3

\* the mark is not more than 30 days old
RecentMark(mark) ==
    iso_parses(mark.sent_at) /\ AgeOf(mark.sent_at) <= 30 * HoursPerDay

\* C19: whatever its argument, cleanup removes a mark from the ledger if and
\* only if its sent_at is more than 30 days old or unparseable; a URL marked
\* not more than 30 days ago is still reported as sent.
C19_LedgerRetention ==
    ret.op = "cleanup_old_cache" =>
        /\ DOMAIN _load_cache(sent_articles) \subseteq DOMAIN _load_cache(ret.sent_before)
        /\ \A u \in DOMAIN _load_cache(ret.sent_before) :
                /\ is_article_sent(sent_articles, u) <=> RecentMark(_load_cache(ret.sent_before)[u])
                /\ is_article_sent(sent_articles, u)
                    => _load_cache(sent_articles)[u] = _load_cache(ret.sent_before)[u]

\* C19 witness: cleanup(1) kept a mark that is 30 days old
C19_Witness ==
    /\ ret.op = "cleanup_old_cache" /\ ret.days = 1
    /\ \E u \in DOMAIN _load_cache(sent_articles) :
            AgeOf(_load_cache(sent_articles)[u].sent_at) = 30 * HoursPerDay

(***************************************************************************)
(* SpecLedger: is_article_sent, filter_new_articles, mark_article_sent and *)
(* mark_articles_sent on a ledger left by earlier runs.  probes is the     *)
(* history of the calls of the behaviour.                                  *)
(***************************************************************************)
\* number of ledger calls in one behaviour
MaxLedgerOps == 3

\* the lists [], [a], [a, b], [a, ab], [b, a], [a, a], and [''], an article
\* with an empty url
LedgerLists ==
    {<<>>, <<Article(UrlA)>>, <<Article(UrlA), Article(UrlB)>>,
     <<Article(UrlA), Article(UrlAB)>>, <<Article(UrlB), Article(UrlA)>>,
     <<Article(UrlA), Article(UrlA)>>, <<Article(<<>>)>>}
LedgerUrls == {UrlA, UrlAB}

\* the ledgers that hold marks for none, one or both of "a" and "ab"
LedgerFiles ==
    {SweepFile(SweepPutSent(SweepPutSent(EmptyDict, c1, UrlA, 0), c3, UrlAB, 0)) :
        c1 \in {"absent", "good"}, c3 \in {"absent", "good"}}

InitLedger ==
    /\ now = 0
    /\ articles_cache = AbsentFile
    /\ analysis_cache = AbsentFile
    /\ sent_articles \in LedgerFiles
    /\ probes = <<>>
    /\ tasks = <<>>
    /\ IdleApi /\ IdlePipe

FilterNewArticles(arts) ==
    /\ Len(probes) < MaxLedgerOps
    /\ probes' = Append(probes, [op |-> "filter_new_articles", arts |-> arts,
                                 before |-> sent_articles,
                                 result |-> filter_new_articles(sent_articles, arts)])
    /\ UNCHANGED <<now, tasks, storeVars, apiVars, pipeVars>>

MarkArticlesSent(arts, topic) ==
    /\ Len(probes) < MaxLedgerOps
    /\ sent_articles' = mark_articles_sent(sent_articles, arts, topic, now)
    /\ probes' = Append(probes, [op |-> "mark_articles_sent", arts |-> arts,
                                 before |-> sent_articles])
    /\ UNCHANGED <<now, tasks, articles_cache, analysis_cache, apiVars, pipeVars>>

MarkArticleSent(url, topic) ==
    /\ Len(probes) < MaxLedgerOps
    /\ sent_articles' = mark_article_sent(sent_articles, url, topic, now)
    /\ probes' = Append(probes, [op |-> "mark_article_sent", arts |-> <<Article(url)>>,
                                 before |-> sent_articles])
    /\ UNCHANGED <<now, tasks, articles_cache, analysis_cache, apiVars, pipeVars>>

NextLedger ==
    \/ \E arts \in LedgerLists : FilterNewArticles(arts)
    \/ \E arts \in LedgerLists : MarkArticlesSent(arts, Crypto)
    \/ \E url \in LedgerUrls : MarkArticleSent(url, Crypto)

SpecLedger == InitLedger /\ [][NextLedger]_vars

\* the urls that have a mark in a ledger file
Marked(file) == DOMAIN _load_cache(file)

\* calls i, i+1, i+2 of the history are R = filter_unsent(A),
\* mark_all_sent(R), filter_unsent(X) with X = R or X = A
DedupRound(i) ==
    /\ i + 2 <= Len(probes)
    /\ probes[i].op = "filter_new_articles"
    /\ probes[i + 1].op = "mark_articles_sent"
    /\ probes[i + 1].arts = probes[i].result
    /\ probes[i + 2].op = "filter_new_articles"
    /\ probes[i + 2].arts \in {probes[i].result, probes[i].arts}

\* C13: if R = filter_unsent(A) and mark_all_sent(R, topic) is then run, a
\* following filter_unsent(R), and filter_unsent(A), returns the empty
\* sequence.
C13_DedupIdempotence ==
    \A i \in DOMAIN probes : DedupRound(i) => probes[i + 2].result = <<>>

\* C13 witness: A had a url of the ledger and a new one, R was marked, and
\* A was filtered again
C13_Witness ==
    /\ DedupRound(1)
    /\ Len(probes[1].result) = 1
    /\ Len(probes[1].arts) = 2
    /\ probes[3].arts = probes[1].arts
    /\ probes[3].result = <<>>

\* the articles of arts whose url has no mark in the ledger file, in order
Unsent(file, arts) ==
    LET NotMarked(a) == a.url \notin Marked(file)
    IN  SelectSeq(arts, NotMarked)

\* C14: filter_unsent(A) returns exactly the articles of A whose url is not
\* a key of the ledger, in their order, and leaves the ledger as it was;
\* from an empty ledger, after mark_all_sent([a, b]), filter_unsent([a, ab])
\* returns only ab.
C14_FilterUnsent ==
    /\ \A i \in DOMAIN probes :
            probes[i].op = "filter_new_articles"
                => probes[i].result = Unsent(probes[i].before, probes[i].arts)
    /\ (probes # <<>> /\ probes[Len(probes)].op = "filter_new_articles")
            => sent_articles = probes[Len(probes)].before
    /\ (/\ Len(probes) >= 2
        /\ probes[1].op = "mark_articles_sent"
        /\ Marked(probes[1].before) = {}
        /\ probes[1].arts = <<Article(UrlA), Article(UrlB)>>
        /\ probes[2].op = "filter_new_articles"
        /\ probes[2].arts = <<Article(UrlA), Article(UrlAB)>>)
            => probes[2].result = <<Article(UrlAB)>>

\* C14 witness: the scenario of the claim has run
C14_Witness ==
    /\ Len(probes) = 2
    /\ probes[1].op = "mark_articles_sent"
    /\ Marked(probes[1].before) = {}
    /\ probes[1].arts = <<Article(UrlA), Article(UrlB)>>
    /\ probes[2].op = "filter_new_articles"
    /\ probes[2].arts = <<Article(UrlA), Article(UrlAB)>>
    /\ probes[2].result = <<Article(UrlAB)>>
    /\ sent_articles = probes[2].before

\* the members of the text of a file have different keys
OneMemberPerKey(file) ==
    \A i, j \in DOMAIN file.text.members :
        i # j => file.text.members[i][1] # file.text.members[j][1]

\* C15: marking a URL that is already in the ledger leaves the set of ledger
\* keys unchanged, a mark call adds the urls it marks and nothing else, and
\* the ledger holds at most one mark per URL after any sequence of
\* mark_sent and mark_all_sent calls.
C15_MarkIdempotent ==
    /\ OneMemberPerKey(sent_articles)
    /\ (probes # <<>> /\ probes[Len(probes)].op \in {"mark_article_sent", "mark_articles_sent"})
        => LET p == probes[Len(probes)]
           IN  /\ Marked(sent_articles) = Marked(p.before) \cup UrlSet(p.arts)
               /\ UrlSet(p.arts) \subseteq Marked(p.before)
                    => Marked(sent_articles) = Marked(p.before)

\* C15 witness: "a" was marked twice in a ledger that holds another mark
C15_Witness ==
    /\ Len(probes) >= 2
    /\ probes[Len(probes)].op = "mark_article_sent"
    /\ probes[Len(probes)].arts = <<Article(UrlA)>>
    /\ UrlA \in Marked(probes[Len(probes)].before)
    /\ Marked(sent_articles) = Marked(probes[Len(probes)].before)
    /\ Cardinality(Marked(sent_articles)) >= 2

(***************************************************************************)
(* SpecStore: _save_cache and _load_cache on the three backing files.      *)
(* fput is, per file, the mapping of the latest save since the last clear. *)
(***************************************************************************)
StoreNames == {"articles_cache", "analysis_cache", "sent_articles"}

\* the mappings over two keys of a store: each key is absent or holds one of
\* two entries
StoreDicts(k1, k2, e1, e2) ==
    {[k \in K |-> IF k \in E THEN e1 ELSE e2] : K \in SUBSET {k1, k2}, E \in SUBSET {k1}}
        \cup {[k \in {k1, k2} |-> e2], [k \in {k2} |-> e1]}

\* the mappings the program saves to a store
StoreMappings(name) ==
    IF name = "articles_cache"
    THEN StoreDicts(_generate_cache_key(Crypto, PipelineMaxArticles, 0),
                    _generate_cache_key(Interstellar, PipelineMaxArticles, 0),
                    [topic |-> Crypto, timestamp |-> isoformat(0), articles |-> <<>>],
                    [topic |-> Crypto, timestamp |-> isoformat(1),
                     articles |-> <<Article(UrlA), Article(UrlB)>>])
    ELSE IF name = "analysis_cache"
    THEN StoreDicts(article_set_key(<<Article(UrlA)>>), article_set_key(<<Article(UrlB)>>),
                    [topic |-> Crypto, timestamp |-> isoformat(0), article_count |-> 1,
                     analysis |-> {}],
                    [topic |-> Crypto, timestamp |-> isoformat(1), article_count |-> 1,
                     analysis |-> AnalysisMixed])
    ELSE StoreDicts(UrlA, UrlB,
                    [topic |-> Crypto, sent_at |-> isoformat(0)],
                    [topic |-> Interstellar, sent_at |-> isoformat(1)])

FileOf(name) ==
    IF name = "articles_cache" THEN articles_cache
    ELSE IF name = "analysis_cache" THEN analysis_cache
    ELSE sent_articles

InitStore ==
    /\ now = 0
    /\ articles_cache = AbsentFile
    /\ analysis_cache = AbsentFile
    /\ sent_articles = AbsentFile
    /\ ret = [op |-> "none"]
    /\ fput = [name \in StoreNames |-> NoPut]
    /\ aput = [some |-> FALSE]
    /\ nput = 0
    /\ IdleKey /\ IdlePipe

SaveCache(name, data) ==
    /\ articles_cache' = IF name = "articles_cache" THEN _save_cache(articles_cache, data)
                         ELSE articles_cache
    /\ analysis_cache' = IF name = "analysis_cache" THEN _save_cache(analysis_cache, data)
                         ELSE analysis_cache
    /\ sent_articles' = IF name = "sent_articles" THEN _save_cache(sent_articles, data)
                        ELSE sent_articles
    /\ fput' = [fput EXCEPT ![name] = Some(data)]
    /\ ret' = [op |-> "_save_cache", name |-> name]
    /\ UNCHANGED <<now, aput, nput, keyVars, pipeVars>>

LoadCache(name) ==
    /\ ret' = [op |-> "_load_cache", name |-> name, result |-> _load_cache(FileOf(name))]
    /\ UNCHANGED <<now, storeVars, fput, aput, nput, keyVars, pipeVars>>

ClearStores ==
    /\ articles_cache' = clear_cache(articles_cache)
    /\ analysis_cache' = clear_cache(analysis_cache)
    /\ sent_articles' = clear_cache(sent_articles)
    /\ fput' = [name \in StoreNames |-> NoPut]
    /\ ret' = [op |-> "clear_cache"]
    /\ UNCHANGED <<now, aput, nput, keyVars, pipeVars>>

NextStore ==
    \/ \E name \in StoreNames : \E data \in StoreMappings(name) : SaveCache(name, data)
    \/ \E name \in StoreNames : LoadCache(name)
    \/ ClearStores

SpecStore == InitStore /\ [][NextStore]_vars

\* C20: save(name, M) followed by load(name) returns a mapping equal to M,
\* for the empty mapping as for the others: right after the save, and at any
\* later load with no save of that store or clear in between.
C20_RoundTrip ==
    /\ ret.op = "_save_cache" => _load_cache(FileOf(ret.name)) = fput[ret.name].val
    /\ (ret.op = "_load_cache" /\ fput[ret.name].some) => ret.result = fput[ret.name].val

\* C20 witness: a load returned a saved mapping of two entries while another
\* store holds a saved empty mapping
C20_Witness ==
    /\ ret.op = "_load_cache"
    /\ fput[ret.name].some
    /\ Cardinality(DOMAIN ret.result) = 2
    /\ \E name \in StoreNames :
            fput[name].some /\ fput[name].val = EmptyDict /\ FileOf(name).exists

\* C24 (as claimed): an article with an empty url passed to mark_all_sent
\* is rejected and changes no store: the ledger never holds a mark under
\* the empty key.
C24_EmptyUrlRejected ==
    /\ ~is_article_sent(sent_articles, <<>>)
    /\ \A i \in DOMAIN probes :
            (probes[i].op = "mark_articles_sent" /\ <<>> \in UrlSet(probes[i].arts))
                => (IF i < Len(probes) THEN probes[i + 1].before ELSE sent_articles)
                        = probes[i].before

(***************************************************************************)
(* SpecRace: two processes on one cache directory, each calling            *)
(* mark_article_sent, with the other process free to run between the       *)
(* _load_cache and the _save_cache of a call.  tasks is, per process, the  *)
(* position in its call, the url it marks and the dict it loaded; probes   *)
(* is the log of the loads and saves.                                      *)
(***************************************************************************)
\* number of mark_article_sent calls of one process
MaxWrites == 1

Writers == {1, 2}
RaceUrls == {UrlA, UrlB, UrlAB}

InitRace ==
    /\ now = 0
    /\ articles_cache = AbsentFile
    /\ analysis_cache = AbsentFile
    /\ sent_articles \in LedgerFiles
    /\ probes = <<>>
    /\ tasks = [w \in Writers |-> [pc |-> "idle", url |-> <<>>, sent |-> EmptyDict, calls |-> 0]]
    /\ IdleApi /\ IdlePipe

\* sent = self._load_cache(self.sent_articles) of process w
WriterLoad(w, url) ==
    /\ tasks[w].pc = "idle"
    /\ tasks[w].calls < MaxWrites
    /\ tasks' = [tasks EXCEPT ![w] = [pc |-> "loaded", url |-> url,
                                      sent |-> _load_cache(sent_articles),
                                      calls |-> tasks[w].calls + 1]]
    /\ probes' = Append(probes, [w |-> w, ev |-> "load"])
    /\ UNCHANGED <<now, storeVars, apiVars, pipeVars>>

\* sent[article_url] = {...}; self._save_cache(self.sent_articles, sent)
WriterSave(w) ==
    /\ tasks[w].pc = "loaded"
    /\ sent_articles' = mark_article_sent_save(sent_articles, tasks[w].sent, tasks[w].url,
                                               Crypto, now)
    /\ tasks' = [tasks EXCEPT ![w].pc = "idle"]
    /\ probes' = Append(probes, [w |-> w, ev |-> "save"])
    /\ UNCHANGED <<now, articles_cache, analysis_cache, apiVars, pipeVars>>

NextRace ==
    \/ \E w \in Writers, url \in RaceUrls : WriterLoad(w, url)
    \/ \E w \in Writers : WriterSave(w)

SpecRace == InitRace /\ [][NextRace]_vars

\* the last four events of the log are two loads and then two saves: both
\* processes loaded before either saved, and process `last` saved last
BothLoadedThenSaved(first, last) ==
    /\ Len(probes) >= 4
    /\ first # last
    /\ probes[Len(probes) - 3].ev = "load"
    /\ probes[Len(probes) - 2].ev = "load"
    /\ probes[Len(probes) - 1] = [w |-> first, ev |-> "save"]
    /\ probes[Len(probes)] = [w |-> last, ev |-> "save"]

\* C26: if two mark_sent calls for different URLs interleave so that both
\* load before either saves, the update of the first saver is lost: the
\* store ends with what was loaded and the last saver's entry.
C26_LastSaveWins ==
    \A first, last \in Writers :
        (BothLoadedThenSaved(first, last) /\ tasks[first].url # tasks[last].url) =>
            /\ Marked(sent_articles) = (DOMAIN tasks[last].sent) \cup {tasks[last].url}
            /\ tasks[first].url \notin DOMAIN tasks[last].sent
                => ~is_article_sent(sent_articles, tasks[first].url)

\* C26 witness: both processes loaded the ledger with "a" in it, the first
\* saved "b", the second saved "ab", and "b" is not in the ledger
C26_Witness ==
    \E first, last \in Writers :
        /\ BothLoadedThenSaved(first, last)
        /\ tasks[first].url = UrlB
        /\ tasks[last].url = UrlAB
        /\ Marked(sent_articles) = {UrlA, UrlAB}

(***************************************************************************)
(* SpecFrame: the three writes (cache_articles, cache_analysis,            *)
(* mark_article_sent) on stores that hold records of earlier runs; ret     *)
(* keeps the three files as they were before the write.                    *)
(***************************************************************************)
FramePairs == {<<Crypto, PipelineMaxArticles>>, <<Interstellar, PipelineMaxArticles>>}
FrameUrls == {UrlA, UrlAB}

FrameArticleFiles ==
    {SweepFile(SweepPutArticles(SweepPutArticles(EmptyDict,
            c0, SweepStart), c1, SweepStart - article_cache_expiry)) :
        c0 \in {"absent", "good"}, c1 \in {"absent", "good"}}

FrameAnalysisFiles ==
    {SweepFile(SweepPutAnalysis(SweepPutAnalysis(EmptyDict,
            c1, <<Article(UrlA), Article(UrlB)>>, SweepStart - analysis_cache_expiry),
            c7, <<Article(UrlAB)>>, SweepStart - 7 * HoursPerDay)) :
        c1 \in {"absent", "good"}, c7 \in {"absent", "good"}}

FrameSentFiles ==
    {SweepFile(SweepPutSent(SweepPutSent(EmptyDict,
            c0, UrlA, SweepStart), c30, UrlB, SweepStart - 30 * HoursPerDay)) :
        c0 \in {"absent", "good"}, c30 \in {"absent", "good"}}

InitFrame ==
    /\ now = SweepStart
    /\ articles_cache \in FrameArticleFiles
    /\ analysis_cache \in FrameAnalysisFiles
    /\ sent_articles \in FrameSentFiles
    /\ ret = [op |-> "none"]
    /\ fput = <<>>
    /\ aput = [some |-> FALSE]
    /\ nput = 0
    /\ IdleKey /\ IdlePipe

\* the three files before a write
FilesBefore == <<articles_cache, analysis_cache, sent_articles>>

FrameCacheArticles(topic, n, arts) ==
    /\ nput < MaxPuts
    /\ nput' = nput + 1
    /\ articles_cache' = cache_articles(articles_cache, topic, n, arts, now)
    /\ ret' = [op |-> "cache_articles", key |-> _generate_cache_key(topic, n, now),
               value |-> arts, before |-> FilesBefore]
    /\ UNCHANGED <<now, analysis_cache, sent_articles, fput, aput, keyVars, pipeVars>>

FrameCacheAnalysis(arts, result) ==
    /\ nput < MaxPuts
    /\ nput' = nput + 1
    /\ analysis_cache' = cache_analysis(analysis_cache, arts, Crypto, result, now)
    /\ ret' = [op |-> "cache_analysis", key |-> article_set_key(arts),
               value |-> result, before |-> FilesBefore]
    /\ UNCHANGED <<now, articles_cache, sent_articles, fput, aput, keyVars, pipeVars>>

FrameMarkArticleSent(url) ==
    /\ nput < MaxPuts
    /\ nput' = nput + 1
    /\ sent_articles' = mark_article_sent(sent_articles, url, Crypto, now)
    /\ ret' = [op |-> "mark_article_sent", key |-> url, value |-> Crypto,
               before |-> FilesBefore]
    /\ UNCHANGED <<now, articles_cache, analysis_cache, fput, aput, keyVars, pipeVars>>

NextFrame ==
    \/ \E p \in FramePairs, arts \in ApiFetchLists : FrameCacheArticles(p[1], p[2], arts)
    \/ \E arts \in SweepLists : FrameCacheAnalysis(arts, AnalysisMixed)
    \/ \E url \in FrameUrls : FrameMarkArticleSent(url)
    \/ SweepTick

SpecFrame == InitFrame /\ [][NextFrame]_vars

\* the store `after` is the store `before` with the record under key
\* written and every other record as it was
OnlyKeyChanged(before, after, key) ==
    /\ DOMAIN _load_cache(after) = (DOMAIN _load_cache(before)) \cup {key}
    /\ \A k \in (DOMAIN _load_cache(before)) \ {key} :
            _load_cache(after)[k] = _load_cache(before)[k]

\* C28: put on the fetch cache changes only the record under
\* fetch_key(topic, max_count), which becomes the new timestamp and the full
\* article list, and leaves every other fetch record, the analysis store and
\* the ledger unchanged; likewise analysis put and mark_sent change only
\* their own key in their own store.
C28_Frame ==
    /\ ret.op = "cache_articles" =>
        /\ OnlyKeyChanged(ret.before[1], articles_cache, ret.key)
        /\ _load_cache(articles_cache)[ret.key].articles = ret.value
        /\ _load_cache(articles_cache)[ret.key].timestamp = isoformat(now)
        /\ analysis_cache = ret.before[2]
        /\ sent_articles = ret.before[3]
    /\ ret.op = "cache_analysis" =>
        /\ OnlyKeyChanged(ret.before[2], analysis_cache, ret.key)
        /\ _load_cache(analysis_cache)[ret.key].analysis = ret.value
        /\ articles_cache = ret.before[1]
        /\ sent_articles = ret.before[3]
    /\ ret.op = "mark_article_sent" =>
        /\ OnlyKeyChanged(ret.before[3], sent_articles, ret.key)
        /\ articles_cache = ret.before[1]
        /\ analysis_cache = ret.before[2]

\* C28 witness: a fetch put overwrote the record of the day in a store that
\* holds another record, with records in the other two stores
C28_Witness ==
    /\ ret.op = "cache_articles"
    /\ ret.key \in DOMAIN _load_cache(ret.before[1])
    /\ _load_cache(ret.before[1])[ret.key].articles # ret.value
    /\ Cardinality(DOMAIN _load_cache(articles_cache)) >= 2
    /\ DOMAIN _load_cache(analysis_cache) # {}
    /\ DOMAIN _load_cache(sent_articles) # {}

(***************************************************************************)
(* SpecInstances: the CacheManager instances of one process (the one of    *)
(* NewsFetcher, the one of LLMAnalyzer, the one of NewscasterBot.__init__) *)
(* on the one cache directory, and the restart of the process.  tasks is,  *)
(* per instance, the files as they were at the end of its last call; fput  *)
(* and aput are the latest put and the marks, with the instance that made  *)
(* them ("previous" after a restart).                                      *)
(***************************************************************************)
Instances == {"fetcher", "analyzer", "startup"}
InstancePair == <<Crypto, PipelineMaxArticles>>
InstanceUrls == {UrlA}
InstanceTick == 12

\* CacheManager(): nothing read yet
NewInstance == [articles |-> AbsentFile, sent |-> AbsentFile]

InitInstances ==
    /\ now = 0
    /\ articles_cache = AbsentFile
    /\ analysis_cache = AbsentFile
    /\ sent_articles = AbsentFile
    /\ probes = <<>>
    /\ tasks = [i \in Instances |-> NewInstance]
    /\ ret = [op |-> "none"]
    /\ fput = NoPut
    /\ aput = [u \in InstanceUrls |-> "none"]
    /\ nput = 0
    /\ IdlePipe

InstanceCacheArticles(i, arts) ==
    /\ nput < MaxPuts
    /\ nput' = nput + 1
    /\ articles_cache' = cache_articles(cache_file_of(tasks[i].articles, articles_cache),
                                        InstancePair[1], InstancePair[2], arts, now)
    /\ tasks' = [tasks EXCEPT ![i].articles = articles_cache']
    /\ fput' = [some |-> TRUE, at |-> now, arts |-> arts, inst |-> i]
    /\ ret' = [op |-> "cache_articles", inst |-> i]
    /\ UNCHANGED <<now, analysis_cache, sent_articles, aput, probes, pipeVars>>

InstanceGetCachedArticles(i) ==
    /\ ret' = [op |-> "get_cached_articles", inst |-> i,
               result |-> get_cached_articles(cache_file_of(tasks[i].articles, articles_cache),
                                              InstancePair[1], InstancePair[2], now)]
    /\ tasks' = [tasks EXCEPT ![i].articles = articles_cache]
    /\ UNCHANGED <<now, storeVars, fput, aput, nput, probes, pipeVars>>

InstanceMarkArticleSent(i, url) ==
    /\ nput < MaxPuts
    /\ nput' = nput + 1
    /\ sent_articles' = mark_article_sent(cache_file_of(tasks[i].sent, sent_articles),
                                          url, Crypto, now)
    /\ tasks' = [tasks EXCEPT ![i].sent = sent_articles']
    /\ aput' = [aput EXCEPT ![url] = i]
    /\ ret' = [op |-> "mark_article_sent", inst |-> i]
    /\ UNCHANGED <<now, articles_cache, analysis_cache, fput, probes, pipeVars>>

InstanceIsArticleSent(i, url) ==
    /\ ret' = [op |-> "is_article_sent", inst |-> i, url |-> url,
               result |-> is_article_sent(cache_file_of(tasks[i].sent, sent_articles), url)]
    /\ tasks' = [tasks EXCEPT ![i].sent = sent_articles]
    /\ UNCHANGED <<now, storeVars, fput, aput, nput, probes, pipeVars>>

\* the process ends and is started again: the three instances are new ones
ProcessRestart ==
    /\ tasks' = [i \in Instances |-> NewInstance]
    /\ fput' = IF fput.some THEN [fput EXCEPT !.inst = "previous"] ELSE fput
    /\ aput' = [u \in InstanceUrls |-> IF aput[u] = "none" THEN "none" ELSE "previous"]
    /\ ret' = [op |-> "none"]
    /\ UNCHANGED <<now, storeVars, nput, probes, pipeVars>>

InstanceClock ==
    /\ now + InstanceTick <= HoursPerDay
    /\ now' = now + InstanceTick
    /\ ret' = [op |-> "none"]
    /\ UNCHANGED <<storeVars, fput, aput, nput, keyVars, pipeVars>>

NextInstances ==
    \/ \E i \in Instances, arts \in ApiFetchLists : InstanceCacheArticles(i, arts)
    \/ \E i \in Instances : InstanceGetCachedArticles(i)
    \/ \E i \in Instances, url \in InstanceUrls : InstanceMarkArticleSent(i, url)
    \/ \E i \in Instances, url \in InstanceUrls : InstanceIsArticleSent(i, url)
    \/ ProcessRestart
    \/ InstanceClock

SpecInstances == InitInstances /\ [][NextInstances]_vars

\* C30: a put or a mark made through one CacheManager instance is observed
\* by the next get or is_sent through any instance on the directory, the
\* instances of a restarted process included: the get of the day of the put
\* returns the articles put, and is_sent is true for a marked url.
C30_NoInstanceState ==
    /\ (ret.op = "get_cached_articles" /\ fput.some /\ DayOf(now) = DayOf(fput.at))
        => ret.result = Some(fput.arts)
    /\ (ret.op = "is_article_sent" /\ aput[ret.url] # "none") => ret.result

\* C30 witness: the analyzer's instance, which had read the store before the
\* put of the fetcher's instance, got the articles put; and a mark made
\* before a restart is in the ledger
C30_Witness ==
    /\ ret.op = "get_cached_articles"
    /\ ret.inst = "analyzer"
    /\ fput.some /\ fput.inst = "fetcher"
    /\ ret.result = Some(fput.arts)
    /\ tasks["startup"].articles # articles_cache
    /\ \E u \in InstanceUrls : aput[u] = "previous" /\ is_article_sent(sent_articles, u)

(***************************************************************************)
(* SpecLoop: one process, its event loop running the Discord bot task      *)
(* (bot.start) and the news task (run_once or start_with_schedule).  A     *)
(* task runs until its next await; the cache operations have no await, so  *)
(* each is part of one step of the news task.  tasks is the state of the   *)
(* bot task: connecting or ready, and the awaits of the news task during   *)
(* which it handled a command.                                             *)
(***************************************************************************)
\* the news task is suspended at an await of fetch_and_send_news or of
\* start_with_schedule, or has returned
NewsSuspendedPcs == SendPcs \cup {"sleep", "done"}

InitLoop ==
    /\ now = 0
    /\ articles_cache = AbsentFile
    /\ analysis_cache = AbsentFile
    /\ sent_articles = AbsentFile
    /\ pc = "boot"
    /\ mode = "once"
    /\ articles = <<>>
    /\ delivered = <<>>
    /\ lastCall = NoCall
    /\ cycles = 0
    /\ probes = <<>>
    /\ tasks = [bot |-> "connecting", handled |-> {}]
    /\ IdleApi

\* bot.start: the bot logs in, on_ready runs, wait_until_ready returns
BotReady ==
    /\ pc = "t1_fetch"
    /\ tasks.bot = "connecting"
    /\ tasks' = [tasks EXCEPT !.bot = "ready"]
    /\ UNCHANGED <<now, storeVars, probes, apiVars, pipeVars>>

\* on_message and a command (!newstest, !newsping) while the news task is
\* suspended
BotCommand ==
    /\ tasks.bot = "ready"
    /\ pc \in NewsSuspendedPcs
    /\ pc \notin tasks.handled
    /\ tasks' = [tasks EXCEPT !.handled = @ \cup {pc}]
    /\ UNCHANGED <<now, storeVars, probes, apiVars, pipeVars>>

\* a step of the news task after wait_until_ready
NewsStep ==
    /\ tasks.bot = "ready"
    /\ \/ \E resp \in InterstellarResponses : FetchInterstellar(resp)
       \/ \E resp \in CryptoResponses : FetchCrypto(resp)
       \/ \E llm \in LlmResponses : Analyze(llm)
       \/ \E ok \in BOOLEAN : SendMessage(ok)
       \/ Sleep

NextLoop ==
    \/ \E m \in Modes : Startup(m)
    \/ BotReady
    \/ BotCommand
    \/ NewsStep

SpecLoop == InitLoop /\ [][NextLoop]_vars

\* the keys of the three stores
StoreKeys(fa, fn, fs) ==
    <<DOMAIN _load_cache(fa), DOMAIN _load_cache(fn), DOMAIN _load_cache(fs)>>

\* C27: in the one event loop the cache operations of the news task are not
\* interleaved with the bot task: a step of the bot task leaves the three
\* stores as they are, and no step of the process loses a record of a store.
C27_NoLostUpdate ==
    [][/\ tasks' # tasks => storeVars' = storeVars
       /\ \A i \in 1..3 :
            StoreKeys(articles_cache, analysis_cache, sent_articles)[i]
                \subseteq StoreKeys(articles_cache', analysis_cache', sent_articles')[i]]_vars

\* C27 witness: the bot handled a command while the news task awaited the
\* first send, between the cache writes of the two topics, and the analyses
\* of both topics are stored with the record of a fetch
C27_Witness ==
    /\ pc = "done"
    /\ "t1_send" \in tasks.handled
    /\ Cardinality(DOMAIN _load_cache(articles_cache)) >= 1
    /\ Cardinality(DOMAIN _load_cache(analysis_cache)) = 2

(***************************************************************************)
(* SpecFaults: the operations of CacheManager on backing files of any      *)
(* content: absent, cut short, holding a record without its timestamp,     *)
(* holding JSON that is not an object; and _save_cache with a write that   *)
(* fails.  ret is the last call with what it raised and returned; aput     *)
(* tells whether clear_cache ran with no write since.                      *)
(***************************************************************************)
NullText == [kind |-> "null", members |-> <<>>, closed |-> TRUE]

ArrayText(items) == [kind |-> "array", members |-> items, closed |-> TRUE]

FaultLists == {<<Article(UrlA)>>, <<Article(UrlA), Article(UrlB)>>}

FaultUrls == {UrlA, UrlB}

\* the mappings saved to a store: one record, two records
FaultMappings(name) ==
    IF name = "articles_cache"
    THEN {SweepPutArticles(EmptyDict, "good", SweepStart),
          SweepPutArticles(SweepPutArticles(EmptyDict, "good", SweepStart), "good",
                           SweepStart - HoursPerDay)}
    ELSE IF name = "analysis_cache"
    THEN {SweepPutAnalysis(EmptyDict, "good", <<Article(UrlA)>>, SweepStart),
          SweepPutAnalysis(SweepPutAnalysis(EmptyDict, "good", <<Article(UrlA)>>, SweepStart),
                           "good", <<Article(UrlA), Article(UrlB)>>, SweepStart)}
    ELSE {SweepPutSent(EmptyDict, "good", UrlA, SweepStart),
          SweepPutSent(SweepPutSent(EmptyDict, "good", UrlA, SweepStart), "good", UrlB,
                       SweepStart)}

\* a mapping of a store whose record lacks its timestamp field
FaultUnstamped(name) ==
    IF name = "articles_cache"
    THEN DictPut(EmptyDict, _generate_cache_key(Crypto, PipelineMaxArticles, SweepStart),
                 [topic |-> Crypto, articles |-> <<Article(UrlA)>>])
    ELSE IF name = "analysis_cache"
    THEN DictPut(EmptyDict, article_set_key(<<Article(UrlA)>>),
                 [topic |-> Crypto, article_count |-> 1, analysis |-> AnalysisMixed])
    ELSE DictPut(EmptyDict, UrlA, [topic |-> Crypto])

\* the contents of a backing file at the start
FaultFiles(name) ==
    {AbsentFile,
     [exists |-> TRUE, text |-> EmptyText],
     [exists |-> TRUE, text |-> NullText],
     [exists |-> TRUE, text |-> ArrayText(<<UrlA>>)],
     _save_cache(AbsentFile, FaultUnstamped(name))}
        \cup {_save_cache(AbsentFile, d) : d \in FaultMappings(name)}

InitFaults ==
    /\ now = SweepStart
    /\ articles_cache \in FaultFiles("articles_cache")
    /\ analysis_cache \in FaultFiles("analysis_cache")
    /\ sent_articles \in FaultFiles("sent_articles")
    /\ ret = [op |-> "none", raised |-> FALSE]
    /\ fput = <<>>
    /\ aput = [cleared |-> FALSE]
    /\ nput = 0
    /\ IdleKey /\ IdlePipe

FilesNow ==
    [articles_cache |-> articles_cache, analysis_cache |-> analysis_cache,
     sent_articles |-> sent_articles]

FaultRead(r) ==
    /\ ret' = r
    /\ UNCHANGED <<now, storeVars, fput, aput, nput, keyVars, pipeVars>>

FaultLoadCache(name) ==
    FaultRead([op |-> "_load_cache", name |-> name, raised |-> FALSE,
               result |-> _load_cache_value(FileOf(name))])

FaultGetCachedArticles ==
    LET o == get_cached_articles_outcome(articles_cache, Crypto, PipelineMaxArticles, now)
    IN  FaultRead([op |-> "get_cached_articles", raised |-> o.raised, result |-> o.result])

FaultGetCachedAnalysis(arts) ==
    LET o == get_cached_analysis_outcome(analysis_cache, arts, Crypto, now)
    IN  FaultRead([op |-> "get_cached_analysis", arts |-> arts, raised |-> o.raised,
                   result |-> o.result])

FaultIsArticleSent(article_url) ==
    LET o == is_article_sent_outcome(sent_articles, article_url)
    IN  FaultRead([op |-> "is_article_sent", url |-> article_url, raised |-> o.raised,
                   result |-> o.result])

FaultFilterNewArticles(arts) ==
    LET o == filter_new_articles_outcome(sent_articles, arts)
    IN  FaultRead([op |-> "filter_new_articles", arts |-> arts, raised |-> o.raised,
                   result |-> o.result])

FaultGetCacheStats ==
    LET o == get_cache_stats_outcome(articles_cache, analysis_cache, sent_articles)
    IN  FaultRead([op |-> "get_cache_stats", raised |-> o.raised, result |-> o.result])

FaultCacheArticles(arts) ==
    LET o == cache_articles_outcome(articles_cache, Crypto, PipelineMaxArticles, arts, now)
    IN  /\ nput < MaxPuts
        /\ articles_cache' = o.file
        /\ nput' = nput + 1
        /\ aput' = [cleared |-> aput.cleared /\ o.raised]
        /\ ret' = [op |-> "cache_articles", raised |-> o.raised]
        /\ UNCHANGED <<now, analysis_cache, sent_articles, fput, keyVars, pipeVars>>

FaultCacheAnalysis(arts) ==
    LET o == cache_analysis_outcome(analysis_cache, arts, Crypto, AnalysisMixed, now)
    IN  /\ nput < MaxPuts
        /\ analysis_cache' = o.file
        /\ nput' = nput + 1
        /\ aput' = [cleared |-> aput.cleared /\ o.raised]
        /\ ret' = [op |-> "cache_analysis", raised |-> o.raised]
        /\ UNCHANGED <<now, articles_cache, sent_articles, fput, keyVars, pipeVars>>

\* cleanup_old_cache(days=7), as at startup
FaultCleanup ==
    LET o == cleanup_old_cache_outcome(articles_cache, analysis_cache, sent_articles,
                                       StartupCleanupDays, now)
    IN  /\ articles_cache' = o.articles_cache
        /\ analysis_cache' = o.analysis_cache
        /\ sent_articles' = o.sent_articles
        /\ ret' = [op |-> "cleanup_old_cache", raised |-> o.raised, before |-> FilesNow]
        /\ UNCHANGED <<now, fput, aput, nput, keyVars, pipeVars>>

\* _save_cache(cache_file, data) with a fault of the write
FaultSaveCache(name, data, fault, written) ==
    /\ nput < MaxPuts
    /\ articles_cache' = IF name = "articles_cache"
                         THEN _save_cache_fault(articles_cache, data, fault, written)
                         ELSE articles_cache
    /\ analysis_cache' = IF name = "analysis_cache"
                         THEN _save_cache_fault(analysis_cache, data, fault, written)
                         ELSE analysis_cache
    /\ sent_articles' = IF name = "sent_articles"
                        THEN _save_cache_fault(sent_articles, data, fault, written)
                        ELSE sent_articles
    /\ nput' = nput + 1
    /\ aput' = [cleared |-> aput.cleared /\ fault = "open"]
    /\ ret' = [op |-> "_save_cache", name |-> name, fault |-> fault, raised |-> FALSE,
               before |-> FilesNow]
    /\ UNCHANGED <<now, fput, keyVars, pipeVars>>

FaultClearCache ==
    /\ articles_cache' = clear_cache(articles_cache)
    /\ analysis_cache' = clear_cache(analysis_cache)
    /\ sent_articles' = clear_cache(sent_articles)
    /\ aput' = [cleared |-> TRUE]
    /\ ret' = [op |-> "clear_cache", raised |-> FALSE, before |-> FilesNow]
    /\ UNCHANGED <<now, fput, nput, keyVars, pipeVars>>

NextFaults ==
    \/ \E name \in StoreNames : FaultLoadCache(name)
    \/ FaultGetCachedArticles
    \/ \E arts \in FaultLists : FaultGetCachedAnalysis(arts)
    \/ \E u \in FaultUrls : FaultIsArticleSent(u)
    \/ \E arts \in FaultLists : FaultFilterNewArticles(arts)
    \/ FaultGetCacheStats
    \/ \E arts \in FaultLists : FaultCacheArticles(arts)
    \/ \E arts \in FaultLists : FaultCacheAnalysis(arts)
    \/ FaultCleanup
    \/ \E name \in StoreNames : \E data \in FaultMappings(name) :
          \/ FaultSaveCache(name, data, "none", 0)
          \/ FaultSaveCache(name, data, "open", 0)
          \/ \E written \in 0 .. Cardinality(DOMAIN data) - 1 :
                FaultSaveCache(name, data, "write", written)
    \/ FaultClearCache

SpecFaults == InitFaults /\ [][NextFaults]_vars

\* the reads of a store answer as on an empty store
ReadsAsEmpty ==
    /\ \A name \in StoreNames :
          _load_cache_value(FileOf(name)) = [type |-> "dict", val |-> EmptyDict]
    /\ get_cached_articles_outcome(articles_cache, Crypto, PipelineMaxArticles, now)
          = [raised |-> FALSE, result |-> NoArticles]
    /\ \A arts \in FaultLists :
          /\ get_cached_analysis_outcome(analysis_cache, arts, Crypto, now)
                = [raised |-> FALSE, result |-> NoAnalysis]
          /\ filter_new_articles_outcome(sent_articles, arts)
                = [raised |-> FALSE, result |-> arts]
    /\ \A u \in FaultUrls :
          is_article_sent_outcome(sent_articles, u) = [raised |-> FALSE, result |-> FALSE]
    /\ get_cache_stats_outcome(articles_cache, analysis_cache, sent_articles)
          = [raised |-> FALSE, result |-> <<0, 0, 0>>]

\* C25: after clear_cache, whatever the three files held, and until the
\* next write, the load of each store is the empty mapping, the gets find
\* nothing, is_article_sent is false for every url and the statistics are
\* zero.
C25_ClearEmpties == aput.cleared => ReadsAsEmpty

\* C25 witness: clear_cache ran on an article file holding a JSON array, an
\* analysis file holding a record and a ledger holding two marks.
C25_Witness ==
    /\ aput.cleared
    /\ ret.op = "clear_cache"
    /\ ret.before.articles_cache.exists
    /\ ret.before.articles_cache.text.kind = "array"
    /\ Cardinality(DOMAIN _load_cache(ret.before.analysis_cache)) = 1
    /\ Cardinality(DOMAIN _load_cache(ret.before.sent_articles)) = 2

\* a file that is absent, or whose content is not the text of a JSON object
Unreadable(file) ==
    \/ ~file.exists
    \/ json_raises(file.text)
    \/ file.text.kind # "object"

\* C21: _load_cache of an absent or unreadable file returns the empty
\* mapping, and the reads of that store then answer as on an empty store
\* without raising.
C21_UnreadableReadsAsEmpty ==
    /\ ret.op = "_load_cache" /\ Unreadable(FileOf(ret.name))
          => ret.result = [type |-> "dict", val |-> EmptyDict]
    /\ ret.op = "get_cached_articles" /\ Unreadable(articles_cache)
          => ~ret.raised /\ ret.result = NoArticles
    /\ ret.op = "get_cached_analysis" /\ Unreadable(analysis_cache)
          => ~ret.raised /\ ret.result = NoAnalysis
    /\ ret.op = "is_article_sent" /\ Unreadable(sent_articles)
          => ~ret.raised /\ ret.result = FALSE
    /\ ret.op = "filter_new_articles" /\ Unreadable(sent_articles)
          => ~ret.raised /\ ret.result = ret.arts
    /\ ret.op = "get_cache_stats" /\ (\A name \in StoreNames : Unreadable(FileOf(name)))
          => ~ret.raised /\ ret.result = <<0, 0, 0>>

\* C22: a _save_cache whose write fails leaves the file as it was: the load
\* that follows returns the mapping that was on disk before.
C22_FailedSaveKeepsContent ==
    ret.op = "_save_cache" /\ ret.fault # "none"
        => /\ ~ret.raised
           /\ _load_cache_value(FileOf(ret.name)) = _load_cache_value(ret.before[ret.name])

\* the three stores load as mappings
LoadsAsMappings == \A name \in StoreNames : _load_cache_value(FileOf(name)).type = "dict"

\* C23: on stores that load as mappings, records without a timestamp
\* included, no cache operation of the pipeline or of the startup cleanup
\* raises.
C23_CacheNeverRaises ==
    /\ LoadsAsMappings
    /\ ret.op \in {"get_cached_articles", "cache_articles", "get_cached_analysis",
                   "cache_analysis", "cleanup_old_cache"}
    => ~ret.raised

====
